---------------------------- MODULE Spec2Model ----------------------------
(***************************************************************************)
(* A model of the Mnet client (src/mnet.py) and of the monitor that drives *)
(* it (src/turbine_monitor.py).                                            *)
(*                                                                         *)
(* Byte strings are sequences of integers in 0..255.  The module holds     *)
(* several specifications over one set of variables; each specification    *)
(* moves its own group of variables and leaves the others at their initial *)
(* values:                                                                 *)
(*   SpecObf      the obfuscation codec (encode / decode / encode_serial)  *)
(*   SpecFrame    the frame codec (MnetPacket, read_packet)                *)
(*   SpecSession  one Mnet session driven by one caller                    *)
(*   SpecMulti    the typed-value and multi-element decoders               *)
(*   SpecMonitor  the monitor's threads sharing one session                *)
(*   SpecTransport the TCP transport (NetworkSerial)                       *)
(***************************************************************************)
EXTENDS Integers, Sequences, FiniteSets, TLC

VARIABLES
    \* SpecObf
    obf_in,      \* the plain byte string handed to encode
    obf_key,     \* the 5-byte key (enc_serial)
    obf_enc,     \* encode's result
    obf_dec,     \* decode's result
    obf_pc,      \* "start" | "encoded" | "decoded"
    \* SpecFrame
    fr_dst,      \* destination, a 1-byte string
    fr_src,      \* source, a 1-byte string
    fr_type,     \* packet type, a 2-byte string
    fr_data,     \* the logical payload handed to MnetPacket
    fr_wire,     \* the bytes on the wire
    fr_noise,    \* "none", or which byte of the frame the line damaged
    fr_got,      \* what read_packet returned
    fr_pc,       \* "start" | "built" | "overflow" | "read"
    \* SpecSession
    se_ctl,             \* the controller's 4-byte serial number
    se_serial,          \* Mnet.serial (NoSerial for None)
    se_encoded_serial,  \* Mnet.encoded_serial (NoKey for None)
    se_pc,              \* "idle" | "call" | "serial_wait" | "send" | "wait"
    se_op,              \* the public operation in progress, or the last one
    se_step,            \* which of its requests the operation is at (from 0)
    se_vals,            \* the values its earlier requests returned
    se_log,             \* what the operation did so far: frames written, responses
                        \* read, encode and decode calls, transport errors
    se_result,          \* what the operation returned or raised
    se_fresh,           \* the operation was called with serial None
    se_nops,            \* operations called so far
    se_nserial,         \* REQ_SERIAL_NUMBER frames written since the last reset
    se_first,           \* type of the first frame written since the last reset
    se_clean,           \* since the last reset every read succeeded and every
                        \* serial-number reply had 4 bytes
    se_keyed_by,        \* payload of the serial-number reply the key came from
    \* SpecMonitor
    mo_lock,            \* TurbineMonitor.serial_lock: the thread that holds it, or "none"
    mo_pc,              \* per thread: where it is in the method it runs
    mo_where,           \* per thread: the TurbineMonitor method it runs
    mo_exc,             \* per thread: the exception that is leaving its Mnet call
    mo_out,             \* threads whose frame is written and whose response read
                        \* has not completed
    mo_serial,          \* mnet_client.serial (NoSerial for None)
    mo_pending,         \* TurbineMonitor.pending_command, and what became of the commands
    mo_web_on,          \* run() has started the web server thread
    \* SpecTyped
    ty_path,            \* "single" (decode_data) | "multi", "cut" (decode_multiple_data)
    ty_in,              \* the bytes handed to the decoder
    ty_id,              \* data_id handed to decode_data (NoDataId for None)
    ty_elems,           \* the whole elements the multi-data body was built from
    ty_out,             \* what the decoder returned or raised
    ty_pc,              \* "start" | "done"
    \* SpecHistory
    hi_stack,           \* the controller's event stack: per slot, TRUE when it holds an event
    hi_alarms,          \* the controller's alarm memory: which profile of AlarmProfiles
    hi_op,              \* the accessor called
    hi_idx,             \* its loop variable: position in range(max_events) or in sub_ids
    hi_step,            \* the request_data call of the current get_event / get_alarm_record
    hi_vals,            \* the values its earlier request_data calls returned
    hi_reqs,            \* the request frames written so far by the accessor
    hi_out,             \* the events or alarm records yielded so far
    hi_result,          \* how the accessor ended: returned or raised
    hi_pc,              \* "idle" | "run" | "done"
    hi_serial,          \* Mnet.serial (NoSerial for None)
    hi_fetched,         \* the accessor called wrote the REQ_SERIAL_NUMBER frame
    hi_prev,            \* how the accessor called before this one ended, and whether
                        \* it fetched the serial number
    \* SpecKey
    ks_serial_bytes,    \* the 4 bytes handed to encode_serial
    ks_result,          \* the bytearray encode_serial returned
    ks_pc,              \* "start" | "encoded"
    \* SpecCrc
    cr_data,            \* the bytes handed to checksum, or the payload handed to MnetPacket
    cr_type,            \* the packet type handed to MnetPacket
    cr_crc,             \* what checksum returned, or MnetPacket.calculated_crc
    cr_pc,              \* "start" | "summed" | "packet"
    \* SpecTransport
    ns_socket,          \* NetworkSerial._socket: 0 (None) or the number of a socket of ns_socks
    ns_socks,           \* the sockets created so far: "open" | "connected" | "closed"
    ns_last,            \* how the most recent connect() ended: "none" | "ok" | "raised"
    ns_closed,          \* close() was called since the most recent connect()
    ns_ctx,             \* the with statement: "none" | "body" | "left"
    ns_call,            \* the last read or write and how it ended
    ns_sp               \* send_packet: its frame, the bytes transmitted, "idle" | "written" | "read"

obfVars == <<obf_in, obf_key, obf_enc, obf_dec, obf_pc>>
frVars == <<fr_dst, fr_src, fr_type, fr_data, fr_wire, fr_noise, fr_got, fr_pc>>
seVars == <<se_ctl, se_serial, se_encoded_serial, se_pc, se_op, se_step, se_vals, se_log,
            se_result, se_fresh, se_nops, se_nserial, se_first, se_clean, se_keyed_by>>

moVars == <<mo_lock, mo_pc, mo_where, mo_exc, mo_out, mo_serial, mo_pending, mo_web_on>>

tyVars == <<ty_path, ty_in, ty_id, ty_elems, ty_out, ty_pc>>

hiSession == <<hi_serial, hi_fetched, hi_prev>>
hiVars == <<hi_stack, hi_alarms, hi_op, hi_idx, hi_step, hi_vals, hi_reqs, hi_out, hi_result, hi_pc,
            hiSession>>

ksVars == <<ks_serial_bytes, ks_result, ks_pc>>

crVars == <<cr_data, cr_type, cr_crc, cr_pc>>

nsVars == <<ns_socket, ns_socks, ns_last, ns_closed, ns_ctx, ns_call, ns_sp>>

vars == <<obfVars, frVars, seVars, moVars, tyVars, hiVars, ksVars, crVars, nsVars>>

-----------------------------------------------------------------------------
(* Bounds of the model *)

\* longest byte string handed to encode / decode (beyond the 5-byte key period)
MaxObfLen == 6

\* longest logical payload of a frame in SpecFrame
MaxFrameData == 3

\* number of public operations called on the session in SpecSession
MaxOps == 3

\* number of whole elements in a multi-data body in SpecTyped
MaxElems == 2

\* number of slots of the controller's event stack in SpecHistory
MaxEvents == 3

-----------------------------------------------------------------------------
(* Bit operations on naturals, as Python computes &, | and ^ on ints.       *)
(* Python's ints are two's complement of unbounded width, so the low 8 bits *)
(* of x ^ y are the xor of the low 8 bits of x and of y: an operand that    *)
(* may be negative is reduced mod 256 before it is handed to these.         *)

RECURSIVE BitXor(_, _)
BitXor(x, y) ==
    IF x = 0 THEN y
    ELSE IF y = 0 THEN x
    ELSE (((x % 2) + (y % 2)) % 2) + 2 * BitXor(x \div 2, y \div 2)

RECURSIVE BitAnd(_, _)
BitAnd(x, y) ==
    IF x = 0 \/ y = 0 THEN 0
    ELSE ((x % 2) * (y % 2)) + 2 * BitAnd(x \div 2, y \div 2)

RECURSIVE BitOr(_, _)
BitOr(x, y) ==
    IF x = 0 THEN y
    ELSE IF y = 0 THEN x
    ELSE (IF x % 2 = 1 \/ y % 2 = 1 THEN 1 ELSE 0) + 2 * BitOr(x \div 2, y \div 2)

\* min(a, b)
Min(a, b) == IF a < b THEN a ELSE b

\* all byte strings over alphabet S of length at most n
RECURSIVE ByteStrings(_, _)
ByteStrings(S, n) ==
    IF n = 0 THEN {<<>>}
    ELSE LET shorter == ByteStrings(S, n - 1)
         IN  shorter \cup {Append(s, x) : s \in {t \in shorter : Len(t) = n - 1}, x \in S}

-----------------------------------------------------------------------------
(* Obfuscation codec: src/mnet.py, Mnet.encode_serial / encode / decode     *)

\* CONST = 0x34 in encode and in decode
CONST == 52

\* encode_serial with result[2] read as p3 + (p0 ^ p1)
encode_serialMutXorFirst(serial_bytes) ==
    LET p0 == serial_bytes[1] p1 == serial_bytes[2] p2 == serial_bytes[3] p3 == serial_bytes[4]
    IN  << (BitAnd(p2, p1) - p2) % 256, (p1 + p0 + p3) % 256, (p3 + BitXor(p0, p1)) % 256,
           (BitAnd(p3, p1) + p2) % 256, (BitOr(p3, p2) - p3) % 256 >>

\* encode_serial with result[0] as (p2 & p1) - p1
encode_serialMutSubtractP1(serial_bytes) ==
    LET p0 == serial_bytes[1] p1 == serial_bytes[2] p2 == serial_bytes[3] p3 == serial_bytes[4]
    IN  << (BitAnd(p2, p1) - p1) % 256, (p1 + p0 + p3) % 256, BitXor(p3 + p0, p1) % 256,
           (BitAnd(p3, p1) + p2) % 256, (BitOr(p3, p2) - p3) % 256 >>

\* encode_serial(serial_bytes): the 5-byte key of a 4-byte serial.
\* Python precedence: p3 + p0 ^ p1 is (p3 + p0) ^ p1.
encode_serial(serial_bytes) ==
    LET p0 == serial_bytes[1]
        p1 == serial_bytes[2]
        p2 == serial_bytes[3]
        p3 == serial_bytes[4]
    IN  << (BitAnd(p2, p1) - p2) % 256,
           (p1 + p0 + p3) % 256,
           BitXor(p3 + p0, p1) % 256,
           (BitAnd(p3, p1) + p2) % 256,
           (BitOr(p3, p2) - p3) % 256 >>

\* one step of encode's loop: out[i] = ((enc_serial[i % 5] - previous_byte ^ byte) + CONST) % 256
\* (i counts from 0; - binds tighter than ^)
encodeByteMutNoChain(enc_serial, i, previous_byte, byte) ==
    (BitXor(enc_serial[(i % 5) + 1] % 256, byte) + CONST) % 256

encodeByte(enc_serial, i, previous_byte, byte) ==
    (BitXor((enc_serial[(i % 5) + 1] - previous_byte) % 256, byte) + CONST) % 256

\* encode's loop: byte i (counted from 0) is encoded with the input byte before it
\* as previous_byte, 0 for the first
encodeLoop(ba, enc_serial) ==
    [j \in 1..Len(ba) |->
        encodeByte(enc_serial, j - 1, IF j = 1 THEN 0 ELSE ba[j - 1], ba[j])]

\* the binding d \in {data} evaluates the argument once
encode(data, enc_serial) ==
    CHOOSE out \in {<<>> \o encodeLoop(d, enc_serial) : d \in {data}} : TRUE

\* one step of decode's loop: tmp = (byte - CONST ^ enc_serial[i % 5] - tmp) % 256,
\* that is ((byte - CONST) ^ (enc_serial[i % 5] - tmp)) % 256
decodeByteMutSubtractAfterXor(enc_serial, i, tmp, byte) ==
    (BitXor((byte - CONST) % 256, enc_serial[(i % 5) + 1] % 256) - tmp) % 256

decodeByte(enc_serial, i, tmp, byte) ==
    BitXor((byte - CONST) % 256, (enc_serial[(i % 5) + 1] - tmp) % 256) % 256

\* decode's loop over the bytes ba[lo] .. ba[hi - 1] (counted from 0), entered with
\* tmp; the range is halved so that long inputs evaluate in a shallow recursion,
\* and the second half is entered with the last byte the first half produced
\* (the binding first \in {..} evaluates the first half once)
RECURSIVE decodeLoop(_, _, _, _, _)
decodeLoop(ba, enc_serial, lo, hi, tmp) ==
    IF hi <= lo THEN <<>>
    ELSE IF hi = lo + 1 THEN <<decodeByte(enc_serial, lo, tmp, ba[lo + 1])>>
    ELSE LET mid == (lo + hi) \div 2
         IN  CHOOSE out \in {first \o decodeLoop(ba, enc_serial, mid, hi, first[Len(first)]) :
                                first \in {decodeLoop(ba, enc_serial, lo, mid, tmp)}} : TRUE

decode(data, enc_serial) ==
    CHOOSE out \in {decodeLoop(d, enc_serial, 0, Len(d), 0) : d \in {data}} : TRUE

-----------------------------------------------------------------------------
(* Frame codec: src/mnet.py, class MnetPacket and Mnet.read_packet          *)

\* MnetPacket.SOH = b'\x01', MnetPacket.EOT = b'\x04'
SOH == 1
EOT == 4

\* Request types (Mnet.REQ_*), 2-byte strings
REQ_MULTIPLE_DATA == <<12, 42>>
REQ_DATA == <<12, 40>>
REQ_WRITE_DATA == <<12, 44>>
REQ_COMMAND == <<12, 50>>
REQ_SERIAL_NUMBER == <<12, 46>>
REQ_LOGIN == <<19, 161>>

\* crc is None: MnetPacket was given no CRC
NoCrc == -1

\* Calculator(Crc16.XMODEM).checksum: polynomial 0x1021, initial value 0,
\* no reflection, no final xor; one bit, one byte, a whole string
crc16Bit(crc) ==
    LET shifted == (crc * 2) % 65536
    IN  IF crc >= 32768 THEN BitXor(shifted, 4129) ELSE shifted

crc16Byte(crc, byte) ==
    crc16Bit(crc16Bit(crc16Bit(crc16Bit(
    crc16Bit(crc16Bit(crc16Bit(crc16Bit(BitXor(crc, byte * 256)))))))))

\* the bytes data[lo..hi] fed in order to the register crc.  The range is halved
\* rather than walked, which keeps the evaluation shallow for a 260-byte frame;
\* the test c >= 0 is always true and makes TLC compute c before it goes on.
RECURSIVE crc16Range(_, _, _, _)
crc16Range(data, lo, hi, crc) ==
    IF lo > hi THEN crc
    ELSE IF lo = hi THEN crc16Byte(crc, data[lo])
    ELSE LET mid == (lo + hi) \div 2
             c == crc16Range(data, lo, mid, crc)
         IN  IF c >= 0 THEN crc16Range(data, mid + 1, hi, c) ELSE 0

\* the checksum with the register started at 0xFFFF
checksumMutInitFFFF(data) == crc16Range(data, 1, Len(data), 65535)

checksum(data) == crc16Range(data, 1, Len(data), 0)

\* n.to_bytes(2, byteorder='big') and struct's '!H'
to_bytes2(n) == <<n \div 256, n % 256>>
from_bytes2(bs) == bs[1] * 256 + bs[2]

\* MnetPacket._escape_data: data.replace(b'\xff', b'\xff\xff').
\* Byte i of data lands at positions i + ff(i - 1) .. i + ff(i) of the result,
\* where ff(i) counts the 0xFF bytes among the first i.
escapeDataMutNoStuffing(data) == data

escape_data(data) ==
    LET n == Len(data)
        count == <<0>> \o [i \in 1..n |-> Cardinality({k \in 1..i : data[k] = 255})]
        ff(i) == count[i + 1]
    IN  IF \A k \in 1..n : data[k] # 255 THEN data
        ELSE [j \in 1..(n + ff(n)) |->
                 data[CHOOSE i \in 1..n : i + ff(i - 1) <= j /\ j <= i + ff(i)]]

\* len(self.real_data).to_bytes(1, byteorder='big') raises OverflowError above 255:
\* MnetPacket.__init__ completes only when the escaped data fits one length byte
MnetPacketFits(data) == Len(escape_data(data)) <= 255

\* the length byte of the frame: len(self.real_data), not data_len
lengthByteMutLogical(data_len, real_data) == data_len

lengthByte(data_len, real_data) == Len(real_data)

\* MnetPacket.__init__(destination, source, packet_type, data_len, data, crc)
MnetPacket(destination, source, packet_type, data_len, data, crc) ==
    LET real_data == escape_data(data)
        packet == destination \o source \o packet_type
                  \o <<lengthByte(data_len, real_data)>> \o real_data
        calculated_crc == checksum(packet)
    IN  [ destination |-> destination, source |-> source, packet_type |-> packet_type,
          data_len |-> data_len, data |-> data, real_data |-> real_data,
          packet |-> packet, calculated_crc |-> calculated_crc,
          crc |-> IF crc # NoCrc THEN crc ELSE calculated_crc ]

\* MnetPacket.__bytes__
PacketBytes(p) == <<SOH>> \o p.packet \o to_bytes2(p.crc) \o <<EOT>>

\* Mnet.create_packet with self.id = source
create_packet(id, destination, packet_type, data) ==
    MnetPacket(destination, id, packet_type, Len(data), data, NoCrc)

\* device.read(size) on the bytes rx the transport holds: the first size bytes,
\* or an error when the transport has fewer (a timeout, a closed connection)
DeviceCanRead(rx, size) == Len(rx) >= size

\* read_packet with the payload read issued for every frame, also one of length 0
read_packetMutReadsEmptyPayload(rx) ==
    IF ~DeviceCanRead(rx, 6)
    THEN [raised |-> "TransportError", reads |-> <<6>>, rest |-> <<>>]
    ELSE
    LET header == SubSeq(rx, 1, 6)
        data_len == header[6]
        after == SubSeq(rx, 7, Len(rx))
    IN  IF ~DeviceCanRead(after, data_len)
        THEN [raised |-> "TransportError", reads |-> <<6, data_len>>, rest |-> <<>>]
        ELSE
        LET data == SubSeq(after, 1, data_len)
            after2 == SubSeq(after, data_len + 1, Len(after))
        IN  IF ~DeviceCanRead(after2, 3)
            THEN [raised |-> "TransportError", reads |-> <<6, data_len, 3>>, rest |-> <<>>]
            ELSE [raised |-> "none",
                  reads |-> <<6, data_len, 3>>,
                  rest |-> SubSeq(after2, 4, Len(after2)),
                  packet |-> MnetPacket(<<header[2]>>, <<header[3]>>, SubSeq(header, 4, 5),
                                        data_len, data, from_bytes2(SubSeq(after2, 1, 2)))]

\* Mnet.read_packet on the bytes rx: the reads it issues, the packet it returns and
\* the bytes it leaves, or the transport's error.  It compares nothing: soh, eot and
\* crc are unpacked and soh and eot are dropped.
read_packet(rx) ==
    IF ~DeviceCanRead(rx, 6)
    THEN [raised |-> "TransportError", reads |-> <<6>>, rest |-> <<>>]
    ELSE
    LET header == SubSeq(rx, 1, 6)
        soh == header[1]
        destination == header[2]
        source == header[3]
        packet_type == from_bytes2(SubSeq(header, 4, 5))
        data_len == header[6]
        after == SubSeq(rx, 7, Len(rx))
    IN  IF data_len > 0 /\ ~DeviceCanRead(after, data_len)
        THEN [raised |-> "TransportError", reads |-> <<6, data_len>>, rest |-> <<>>]
        ELSE
        LET data == IF data_len > 0 THEN SubSeq(after, 1, data_len) ELSE <<>>
            after2 == SubSeq(after, data_len + 1, Len(after))
        IN  IF ~DeviceCanRead(after2, 3)
            THEN [raised |-> "TransportError",
                  reads |-> (IF data_len > 0 THEN <<6, data_len, 3>> ELSE <<6, 3>>),
                  rest |-> <<>>]
            ELSE
            LET tail == SubSeq(after2, 1, 3)
                crc == from_bytes2(SubSeq(tail, 1, 2))
                eot == tail[3]
            IN  [raised |-> "none",
                 reads |-> (IF data_len > 0 THEN <<6, data_len, 3>> ELSE <<6, 3>>),
                 rest |-> SubSeq(after2, 4, Len(after2)),
                 packet |-> MnetPacket(<<destination>>, <<source>>, to_bytes2(packet_type),
                                       data_len, data, crc)]

-----------------------------------------------------------------------------
(* Typed-value codec: src/mnet.py, Mnet.decode_data, decode_multiple_data   *)
(*                                                                          *)
(* A decoded value is a record: [kind |-> "None"], [kind |-> "int", v],     *)
(* [kind |-> "str", s] (s the characters), [kind |-> "float", raw, op, cv]  *)
(* (the float that op computes from raw and the conversion value cv) or     *)
(* [kind |-> "datetime", of] (the 1980 epoch plus of seconds).  A call that *)
(* raises gives [raised |-> the exception]; one that returns has            *)
(* raised = "none".                                                         *)

\* Mnet.DATA_IDS_NOT_TIMESTAMP: 0x9cae, 0xc739, 0xc73a, 0xc79c, 0xc79d, 0xc79e
DATA_IDS_NOT_TIMESTAMP == {40110, 51001, 51002, 51100, 51101, 51102}

\* no data_id was given to decode_data (data_id = None)
NoDataId == -1

\* struct '!b', '!h', '!H', '!l', '!L' at offset 5 of data_in (index 6 here)
unpack_b(d) == IF d[6] >= 128 THEN d[6] - 256 ELSE d[6]
unpack_H(d) == d[6] * 256 + d[7]
unpack_h(d) == IF d[6] >= 128 THEN unpack_H(d) - 65536 ELSE unpack_H(d)
unpack_L(d) == ((d[6] * 256 + d[7]) * 256 + d[8]) * 256 + d[9]
unpack_l(d) == (((IF d[6] >= 128 THEN d[6] - 256 ELSE d[6]) * 256 + d[7]) * 256 + d[8]) * 256 + d[9]

\* str.rstrip('\x00')
RECURSIVE rstripNul(_)
rstripNul(bs) ==
    IF Len(bs) > 0 /\ bs[Len(bs)] = 0 THEN rstripNul(SubSeq(bs, 1, Len(bs) - 1)) ELSE bs

\* the first match statement of decode_data: the raw value of data_type, or the
\* exception (struct.error when data_in is too short for the type)
RawData(data_type, length, data_in) ==
    LET need(n) == Len(data_in) >= 5 + n
        int(n, v) == IF need(n) THEN [raised |-> "none", raw |-> [kind |-> "int", v |-> v]]
                     ELSE [raised |-> "struct.error"]
    IN  CASE data_type = 0 -> [raised |-> "none", raw |-> [kind |-> "None"]]
          [] data_type \in {1, 10, 2} -> int(1, unpack_b(data_in))
          [] data_type = 3 -> int(2, unpack_h(data_in))
          [] data_type = 4 -> int(2, unpack_H(data_in))
          [] data_type = 5 -> int(4, unpack_l(data_in))
          [] data_type \in {6, 7} -> int(4, unpack_L(data_in))
          [] data_type = 9 ->
                IF ~need(length) THEN [raised |-> "struct.error"]
                ELSE LET bs == SubSeq(data_in, 6, 5 + length)
                     IN  IF \E i \in 1..Len(bs) : bs[i] >= 128
                         THEN [raised |-> "UnicodeDecodeError"]
                         ELSE [raised |-> "none", raw |-> [kind |-> "str", s |-> rstripNul(bs)]]
          [] OTHER -> [raised |-> "ValueError"]

\* float(raw_data): TypeError for None, ValueError for a string that is no number.
\* Of the strings the model builds (letters, digits, NUL) float() accepts
\* exactly the non-empty strings of digits.
FloatRaises(raw) ==
    CASE raw.kind = "None" -> "TypeError"
      [] raw.kind = "str" ->
            IF Len(raw.s) > 0 /\ \A i \in 1..Len(raw.s) : raw.s[i] \in 48..57
            THEN "none" ELSE "ValueError"
      [] OTHER -> "none"

\* the second match statement of decode_data: no case for a conversion_type
\* above 5, which leaves value unbound (UnboundLocalError at its first use)
ConvertedMutDefaultRaw(conversion_type, conversion_value, raw) ==
    [raised |-> "none", value |-> raw]

Converted(conversion_type, conversion_value, raw) ==
    LET float(op) == IF FloatRaises(raw) # "none" THEN [raised |-> FloatRaises(raw)]
                     ELSE [raised |-> "none",
                           value |-> [kind |-> "float", raw |-> raw, op |-> op,
                                      cv |-> conversion_value]]
    IN  CASE conversion_type = 0 -> [raised |-> "none", value |-> raw]
          [] conversion_type \in {1, 5} -> float("div_pow10")
          [] conversion_type = 2 -> float(IF conversion_value # 0 THEN "div" ELSE "float")
          [] conversion_type = 3 -> float(IF conversion_value # 0 THEN "mul" ELSE "float")
          [] conversion_type = 4 -> float("mul_pow10")
          [] OTHER -> [raised |-> "UnboundLocalError"]

\* Mnet.timestamp_to_datetime
timestamp_to_datetime(timestamp) == [kind |-> "datetime", of |-> timestamp]

\* datetime conversion is skipped for the ids of DATA_IDS_NOT_TIMESTAMP
IsTimestampMutNoDenyList(data_type, data_id) == data_type = 6

IsTimestamp(data_type, data_id) == data_type = 6 /\ data_id \notin DATA_IDS_NOT_TIMESTAMP

\* Mnet.decode_data(data_in, data_id)
decode_data(data_in, data_id) ==
    IF Len(data_in) < 5 THEN [raised |-> "struct.error"]
    ELSE
    LET data_type == data_in[1]
        conversion_type == data_in[2]
        conversion_value == data_in[3] * 256 + data_in[4]
        length == data_in[5]
        r == RawData(data_type, length, data_in)
    IN  IF r.raised # "none" THEN [raised |-> r.raised]
        ELSE LET c == Converted(conversion_type, conversion_value, r.raw)
             IN  IF c.raised # "none" THEN [raised |-> c.raised]
                 ELSE [raised |-> "none", data_type |-> data_type,
                       value |-> IF IsTimestamp(data_type, data_id)
                                 THEN timestamp_to_datetime(c.value) ELSE c.value]

\* what decode_multiple_data does with the exception decode_data raises for one
\* element: nothing, the exception leaves decode_multiple_data
ElementErrorMutTruncate(results, exc) == [raised |-> "none", results |-> results]

ElementError(results, exc) == [raised |-> exc]

\* the loop without its `if pos + 9 > len(data_in): break`: struct.unpack raises on
\* the short header
RECURSIVE decodeElementsMutNoBreak(_, _, _, _)
decodeElementsMutNoBreak(data_in, n, pos, results) ==
    IF n = 0 THEN [raised |-> "none", results |-> results]
    ELSE IF pos + 9 > Len(data_in) THEN [raised |-> "struct.error"]
    ELSE
    LET mainid == data_in[pos + 1] * 256 + data_in[pos + 2]
        subid == data_in[pos + 3] * 256 + data_in[pos + 4]
        length == data_in[pos + 9]
        last == IF pos + 9 + length <= Len(data_in) THEN pos + 9 + length ELSE Len(data_in)
        next_data == SubSeq(data_in, pos + 5, last)
        decoded == decode_data(next_data, mainid)
    IN  IF decoded.raised # "none" THEN ElementError(results, decoded.raised)
        ELSE decodeElementsMutNoBreak(data_in, n - 1, pos + 9 + length,
                            Append(results, [mainid |-> mainid, subid |-> subid,
                                             data_type |-> decoded.data_type,
                                             value |-> decoded.value]))

\* the loop with `pos += 9`: the cursor goes past the header and not past the data
RECURSIVE decodeElementsMutAdvancesNine(_, _, _, _)
decodeElementsMutAdvancesNine(data_in, n, pos, results) ==
    IF n = 0 \/ pos + 9 > Len(data_in) THEN [raised |-> "none", results |-> results]
    ELSE
    LET mainid == data_in[pos + 1] * 256 + data_in[pos + 2]
        subid == data_in[pos + 3] * 256 + data_in[pos + 4]
        length == data_in[pos + 9]
        last == IF pos + 9 + length <= Len(data_in) THEN pos + 9 + length ELSE Len(data_in)
        next_data == SubSeq(data_in, pos + 5, last)
        decoded == decode_data(next_data, mainid)
    IN  IF decoded.raised # "none" THEN ElementError(results, decoded.raised)
        ELSE decodeElementsMutAdvancesNine(data_in, n - 1, pos + 9,
                            Append(results, [mainid |-> mainid, subid |-> subid,
                                             data_type |-> decoded.data_type,
                                             value |-> decoded.value]))

\* the for loop of decode_multiple_data: n elements still to do, cursor pos
\* (counted from 0 as in the code), results so far
RECURSIVE decodeElements(_, _, _, _)
decodeElements(data_in, n, pos, results) ==
    IF n = 0 \/ pos + 9 > Len(data_in) THEN [raised |-> "none", results |-> results]
    ELSE
    LET mainid == data_in[pos + 1] * 256 + data_in[pos + 2]
        subid == data_in[pos + 3] * 256 + data_in[pos + 4]
        length == data_in[pos + 9]
        last == IF pos + 9 + length <= Len(data_in) THEN pos + 9 + length ELSE Len(data_in)
        next_data == SubSeq(data_in, pos + 5, last)
        decoded == decode_data(next_data, mainid)
    IN  IF decoded.raised # "none" THEN ElementError(results, decoded.raised)
        ELSE decodeElements(data_in, n - 1, pos + 9 + length,
                            Append(results, [mainid |-> mainid, subid |-> subid,
                                             data_type |-> decoded.data_type,
                                             value |-> decoded.value]))

\* Mnet.decode_multiple_data(data_in)
decode_multiple_data(data_in) ==
    IF Len(data_in) = 0 THEN [raised |-> "none", results |-> <<>>]
    ELSE decodeElements(data_in, data_in[1], 1, <<>>)

-----------------------------------------------------------------------------
(* Session layer: src/mnet.py, Mnet.__init__ .. Mnet.get_alarm_record       *)

\* self.serial = None
NoSerial == -1
\* self.encoded_serial = None
NoKey == <<>>

\* Mnet.__init__'s default id, and the destination its callers use
\* (TurbineMonitor.DESTINATION)
CLIENT_ID == <<1>>
DESTINATION == <<2>>

LOGIN_131_GAIA_WIND ==
    <<49, 51, 49, 32, 102, 107, 89, 117, 41, 41, 49, 50, 50, 50, 49, 81, 81, 97, 97, 0>>
LOGIN_PACKET_ID == 123

DATA_ID_WIND_SPEED == <<156, 67>>
DATA_ID_ROTOR_REVS == <<156, 70>>
\* 0x9cae in DATA_IDS_NOT_TIMESTAMP ("GRID_FREQUENCY"), as the data_id bytes a caller passes
GRID_FREQUENCY == <<156, 174>>
DATA_ID_CONTROLLER_TIME == <<195, 83>>
DATA_ID_STATUS_TEXT == <<199, 60>>
DATA_ID_ALARM_LAST_OCCURRED == <<199, 59>>
DATA_COMMAND_START == <<0, 1>>

\* struct '!L' / '!I' of four bytes, and back
\* the four bytes read least significant first
from_bytes4MutLittleEndian(bs) == ((bs[4] * 256 + bs[3]) * 256 + bs[2]) * 256 + bs[1]

from_bytes4(bs) == ((bs[1] * 256 + bs[2]) * 256 + bs[3]) * 256 + bs[4]
to_bytes4(n) == <<n \div 16777216, (n \div 65536) % 256, (n \div 256) % 256, n % 256>>

\* the descriptor with six 0x00 bytes after the 0x05
create_login_packet_dataMutSixZeros ==
    LOGIN_131_GAIA_WIND
    \o <<255, 255,
         LOGIN_PACKET_ID \div 16777216, LOGIN_PACKET_ID \div 65536,
         LOGIN_PACKET_ID \div 256, LOGIN_PACKET_ID,
         5, 0, 0, 0, 0, 0, 0>>

\* Mnet.create_login_packet_data: struct.pack('=20sBBBBBBBBBBBB', ...)
create_login_packet_data ==
    LOGIN_131_GAIA_WIND
    \o <<255, 255,
         LOGIN_PACKET_ID \div 16777216, LOGIN_PACKET_ID \div 65536,
         LOGIN_PACKET_ID \div 256, LOGIN_PACKET_ID,
         5, 0, 0, 0, 0, 0>>

\* _ensure_serial_available: if self.serial is None
EnsureNeededMutAlways(serial) == TRUE

EnsureNeeded(serial) == serial = NoSerial

\* the payload each operation hands to send_packet
login_dataMutPlain(encoded_serial) == create_login_packet_data

login_data(encoded_serial) == encode(create_login_packet_data, encoded_serial)

request_data_body(data_id, sub_id) == data_id \o to_bytes2(sub_id)

\* bytes([len(datasubids)]) and data_id + sub_id.to_bytes(2) for each pair
request_multiple_data_body(datasubids) ==
    <<Len(datasubids)>> \o
    [j \in 1..(4 * Len(datasubids)) |->
        LET pair == datasubids[((j - 1) \div 4) + 1]
            k == ((j - 1) % 4) + 1
        IN  IF k <= 2 THEN pair[1][k] ELSE to_bytes2(pair[2])[k - 2]]

send_command_body(command_id) == command_id

\* A datetime handed to set_controller_time: its wall-clock reading as whole days
\* after 1980-01-01, second of the day and microsecond, and its tzinfo: <<>> for
\* None (a naive datetime), <<offset>> for an offset from UTC in seconds.

\* set_controller_time with the offset of an aware datetime left out
controller_timestampMutWallClock(time) == time.day * 86400 + time.second

\* set_controller_time: time.replace(tzinfo=utc) or time.astimezone(utc), then
\* int((time - epoch).total_seconds()); int() truncates towards zero
controller_timestamp(time) ==
    LET shifted == time.second - (IF time.tzinfo = <<>> THEN 0 ELSE time.tzinfo[1])
        days == time.day + (shifted \div 86400)
        seconds == shifted % 86400
    IN  IF days < 0 /\ time.microsecond > 0
        THEN days * 86400 + seconds + 1
        ELSE days * 86400 + seconds

set_controller_time_body(timestamp) ==
    DATA_ID_CONTROLLER_TIME \o to_bytes2(1) \o to_bytes4(timestamp)

\* the request_data calls of get_alarm_record, in order
alarm_record_data_id(step) ==
    IF step = 0 THEN DATA_ID_ALARM_LAST_OCCURRED ELSE DATA_ID_STATUS_TEXT

\* the (packet_type, data) of the send_packet call that operation op makes at its
\* step-th request
Request(op, step, encoded_serial) ==
    CASE op.name = "login" ->
            [packet_type |-> REQ_LOGIN, data |-> login_data(encoded_serial)]
      [] op.name = "send_command" ->
            [packet_type |-> REQ_COMMAND, data |-> send_command_body(op.command_id)]
      [] op.name = "request_data" ->
            [packet_type |-> REQ_DATA, data |-> request_data_body(op.data_id, op.sub_id)]
      [] op.name = "request_multiple_data" ->
            [packet_type |-> REQ_MULTIPLE_DATA,
             data |-> request_multiple_data_body(op.datasubids)]
      [] op.name = "set_controller_time" ->
            [packet_type |-> REQ_WRITE_DATA, data |-> set_controller_time_body(controller_timestamp(op.time))]
      [] op.name = "get_alarm_record" ->
            [packet_type |-> REQ_DATA,
             data |-> request_data_body(alarm_record_data_id(step), op.sub_id)]

\* the data_id request_data hands to decode_data at this step
RequestDataId(op, step) ==
    IF op.name = "get_alarm_record" THEN from_bytes2(alarm_record_data_id(step))
    ELSE from_bytes2(op.data_id)

\* the operations that go through request_data
UsesRequestData(op) == op.name \in {"request_data", "get_alarm_record"}

\* whether the operation applies decode to the response of its request
DecodesResponseMutAll(op) == TRUE

DecodesResponse(op) == op.name \in {"request_data", "get_alarm_record", "request_multiple_data"}

NoneValue == [kind |-> "None"]

\* first and last second of the year 2032, counted from 1980-01-01 00:00:00 UTC
Year2032First == 1640995200
Year2032Last == 1672617599

\* hasattr(timestamp, 'year') and timestamp.year == 2032
IsYear2032MutNever(timestamp) == FALSE

IsYear2032(timestamp) ==
    /\ timestamp.kind = "datetime"
    /\ timestamp.of.kind = "int"
    /\ timestamp.of.v >= Year2032First
    /\ timestamp.of.v <= Year2032Last

\* description.strip() if isinstance(description, str) else str(description):
\* the strings of the model hold no white space, so strip changes nothing
AlarmRecord(sub_id, timestamp, description) ==
    [kind |-> "AlarmRecord", sub_id |-> sub_id, last_occurred |-> timestamp,
     description |-> description, has_occurred |-> ~IsYear2032(timestamp)]

\* what the caller of op gets when exception exc leaves the code inside it:
\* get_alarm_record catches every Exception and returns None
Propagate(op, exc) ==
    IF op.name = "get_alarm_record"
    THEN [raised |-> "none", value |-> NoneValue]
    ELSE [raised |-> exc]

\* what the operation does with the response packet p of its step-th request:
\* [raised], or [raised |-> "none", value] when the operation returns, or
\* [raised |-> "none", next |-> TRUE, value] when it goes on to its next request
AfterResponse(op, step, vals, p, encoded_serial) ==
    CASE op.name \in {"login", "send_command", "set_controller_time"} ->
            [raised |-> "none",
             value |-> [kind |-> "MnetPacket", packet_type |-> p.packet_type, data |-> p.data]]
      [] UsesRequestData(op) ->
            LET d == decode_data(decode(p.data, encoded_serial), RequestDataId(op, step))
            IN  IF d.raised # "none" THEN Propagate(op, d.raised)
                ELSE IF op.name = "request_data" THEN [raised |-> "none", value |-> d.value]
                ELSE IF d.value = NoneValue THEN [raised |-> "none", value |-> NoneValue]
                ELSE IF step = 0 THEN [raised |-> "none", next |-> TRUE, value |-> d.value]
                ELSE [raised |-> "none",
                      value |-> AlarmRecord(op.sub_id, vals[1], d.value)]
      [] op.name = "request_multiple_data" ->
            LET m == decode_multiple_data(decode(p.data, encoded_serial))
            IN  IF m.raised # "none" THEN [raised |-> m.raised]
                ELSE [raised |-> "none",
                      value |-> [kind |-> "list",
                                 values |-> [i \in 1..Len(m.results) |-> m.results[i].value]]]

-----------------------------------------------------------------------------
(* The variables of each specification at rest                              *)

ObfIdle ==
    /\ obf_in = <<>>
    /\ obf_key = <<0, 0, 0, 0, 0>>
    /\ obf_enc = <<>>
    /\ obf_dec = <<>>
    /\ obf_pc = "idle"

FrIdle ==
    /\ fr_dst = <<>>
    /\ fr_src = <<>>
    /\ fr_type = <<>>
    /\ fr_data = <<>>
    /\ fr_wire = <<>>
    /\ fr_noise = "none"
    /\ fr_got = [raised |-> "idle"]
    /\ fr_pc = "idle"

NoOp == [name |-> "none"]

SeIdle ==
    /\ se_ctl = <<>>
    /\ se_serial = NoSerial
    /\ se_encoded_serial = NoKey
    /\ se_pc = "off"
    /\ se_op = NoOp
    /\ se_step = 0
    /\ se_vals = <<>>
    /\ se_log = <<>>
    /\ se_result = [raised |-> "none"]
    /\ se_fresh = FALSE
    /\ se_nops = 0
    /\ se_nserial = 0
    /\ se_first = <<>>
    /\ se_clean = TRUE
    /\ se_keyed_by = <<>>

\* the threads that use the monitor's one Mnet session: the thread of run() and
\* the web server's thread, which runs the socket handlers
Threads == {"run", "web"}

MoIdle ==
    /\ mo_lock = "none"
    /\ mo_pc = [t \in Threads |-> "off"]
    /\ mo_where = [t \in Threads |-> "none"]
    /\ mo_exc = [t \in Threads |-> "none"]
    /\ mo_out = {}
    /\ mo_serial = NoSerial
    /\ mo_pending = [cmd |-> 0]
    /\ mo_web_on = FALSE

TyIdle ==
    /\ ty_path = "none"
    /\ ty_in = <<>>
    /\ ty_id = NoDataId
    /\ ty_elems = <<>>
    /\ ty_out = [raised |-> "idle"]
    /\ ty_pc = "idle"

HiIdle ==
    /\ hi_stack = <<>>
    /\ hi_alarms = "none"
    /\ hi_op = NoOp
    /\ hi_idx = 0
    /\ hi_step = 0
    /\ hi_vals = <<>>
    /\ hi_reqs = <<>>
    /\ hi_out = <<>>
    /\ hi_result = [raised |-> "none"]
    /\ hi_pc = "off"
    /\ hi_serial = NoSerial
    /\ hi_fetched = FALSE
    /\ hi_prev = [result |-> [raised |-> "never"], fetched |-> FALSE]

KsIdle ==
    /\ ks_serial_bytes = <<>>
    /\ ks_result = <<>>
    /\ ks_pc = "off"

CrIdle ==
    /\ cr_data = <<>>
    /\ cr_type = <<>>
    /\ cr_crc = NoCrc
    /\ cr_pc = "off"

NsIdle ==
    /\ ns_socket = 0
    /\ ns_socks = <<>>
    /\ ns_last = "off"
    /\ ns_closed = FALSE
    /\ ns_ctx = "none"
    /\ ns_call = [op |-> "none"]
    /\ ns_sp = [pc |-> "off"]

\* what each specification leaves alone
obfOthers == <<frVars, seVars, moVars, tyVars, hiVars, ksVars, crVars, nsVars>>
frOthers == <<obfVars, seVars, moVars, tyVars, hiVars, ksVars, crVars, nsVars>>
seOthers == <<obfVars, frVars, moVars, tyVars, hiVars, ksVars, crVars, nsVars>>
moOthers == <<obfVars, frVars, seVars, tyVars, hiVars, ksVars, crVars, nsVars>>
tyOthers == <<obfVars, frVars, seVars, moVars, hiVars, ksVars, crVars, nsVars>>
hiOthers == <<obfVars, frVars, seVars, moVars, tyVars, ksVars, crVars, nsVars>>
ksOthers == <<obfVars, frVars, seVars, moVars, tyVars, hiVars, crVars, nsVars>>
crOthers == <<obfVars, frVars, seVars, moVars, tyVars, hiVars, ksVars, nsVars>>
nsOthers == <<obfVars, frVars, seVars, moVars, tyVars, hiVars, ksVars, crVars>>

-----------------------------------------------------------------------------
(* SpecObf: the codec applied to byte strings and keys drawn from bounded   *)
(* sets.                                                                    *)

\* bytes the strings are built from: 0x00, 'H', 0xFF
ObfBytes == {0, 72, 255}

\* "Hello, World!" (src/tests/test_mnet.py, test_encode_decode_data)
HelloWorld == <<72, 101, 108, 108, 111, 44, 32, 87, 111, 114, 108, 100, 33>>

ObfInputs == ByteStrings(ObfBytes, MaxObfLen) \cup {HelloWorld}

\* serials whose keys are derived: 01 02 03 04, zero, all ones, 12345678, mixed
SampleSerials ==
    { <<1, 2, 3, 4>>, <<0, 0, 0, 0>>, <<255, 255, 255, 255>>,
      <<0, 188, 97, 78>>, <<128, 127, 255, 1>> }

\* keys: every derived key of a sample serial, and two keys no serial need derive
ObfKeys ==
    {encode_serial(s) : s \in SampleSerials} \cup {<<1, 2, 3, 4, 5>>, <<255, 128, 0, 52, 200>>}

ObfInit ==
    /\ obf_in \in ObfInputs
    /\ obf_key \in ObfKeys
    /\ obf_enc = <<>>
    /\ obf_dec = <<>>
    /\ obf_pc = "start"
    /\ FrIdle
    /\ SeIdle
    /\ MoIdle
    /\ TyIdle
    /\ HiIdle
    /\ KsIdle
    /\ CrIdle
    /\ NsIdle

ObfEncode ==
    /\ obf_pc = "start"
    /\ obf_enc' = encode(obf_in, obf_key)
    /\ obf_pc' = "encoded"
    /\ UNCHANGED <<obf_in, obf_key, obf_dec>>
    /\ UNCHANGED obfOthers

ObfDecode ==
    /\ obf_pc = "encoded"
    /\ obf_dec' = decode(obf_enc, obf_key)
    /\ obf_pc' = "decoded"
    /\ UNCHANGED <<obf_in, obf_key, obf_enc>>
    /\ UNCHANGED obfOthers

ObfNext == ObfEncode \/ ObfDecode

SpecObf == ObfInit /\ [][ObfNext]_vars

-----------------------------------------------------------------------------
(* C1: for every byte string b and every 5-byte key k,                      *)
(* decode(encode(b, k), k) = b.                                             *)
C1_DecodeInvertsEncode ==
    obf_pc = "decoded" => (obf_dec = obf_in /\ Len(obf_enc) = Len(obf_in))

\* a string longer than the key, holding 0xFF, whose cipher text differs from it
C1_Witness ==
    /\ obf_pc = "decoded"
    /\ Len(obf_in) > 5
    /\ \E i \in 1..Len(obf_in) : obf_in[i] = 255
    /\ obf_enc # obf_in
    /\ obf_dec = obf_in

\* prev at byte i (counted from 1) of decode's output: the output byte before it,
\* 0 at the first
PrevOut(i) == IF i = 1 THEN 0 ELSE obf_dec[i - 1]

\* C20 as stated: decode(in, k) computes, with prev initially 0 and C = 0x34,
\* out[i] = (((in[i] - C) XOR k[i mod 5]) - prev) mod 256 and then prev = out[i].
C20_DecodeSubtractsAfterXor ==
    obf_pc = "decoded" =>
        /\ Len(obf_dec) = Len(obf_enc)
        /\ \A i \in 1..Len(obf_dec) :
              obf_dec[i] = (BitXor((obf_enc[i] - 52) % 256, obf_key[((i - 1) % 5) + 1])
                            - PrevOut(i)) % 256

\* C20 amended: decode(in, k) computes, with prev initially 0 and C = 0x34,
\* out[i] = ((in[i] - C) XOR (k[i mod 5] - prev)) mod 256 and then prev = out[i]:
\* prev is subtracted from the key byte before the XOR, as Python's precedence
\* reads `byte - CONST ^ enc_serial[i % 5] - tmp`.
C20_DecodeSubtractsBeforeXor ==
    obf_pc = "decoded" =>
        /\ Len(obf_dec) = Len(obf_enc)
        /\ \A i \in 1..Len(obf_dec) :
              obf_dec[i] = BitXor((obf_enc[i] - 52) % 256,
                                  (obf_key[((i - 1) % 5) + 1] - PrevOut(i)) % 256)

\* a cipher text on which the two formulas differ, at a byte beyond the key length
C20_Witness ==
    /\ obf_pc = "decoded"
    /\ Len(obf_dec) > 5
    /\ PrevOut(Len(obf_dec)) # 0
    /\ obf_dec[Len(obf_dec)] #
          (BitXor((obf_enc[Len(obf_dec)] - 52) % 256, obf_key[((Len(obf_dec) - 1) % 5) + 1])
           - PrevOut(Len(obf_dec))) % 256

-----------------------------------------------------------------------------
(* SpecFrame: a frame is built from (destination, source, type, payload),   *)
(* the line may damage one byte of it, and read_packet parses what arrives. *)

\* bytes the payloads are built from: 0x00, 0x9C, 0xFF
FrameBytes == {0, 156, 255}

\* 128 bytes 0xFF: its escaped form is 256 bytes long
LongPayload == [i \in 1..128 |-> 255]

FramePayloads == ByteStrings(FrameBytes, MaxFrameData) \cup {LongPayload}

\* the bytes the line may put in place of one it damages
NoiseBytes == {0, 1, 4, 255}

FrameInit ==
    /\ fr_dst \in {<<2>>, <<255>>}
    /\ fr_src \in {<<1>>}
    /\ fr_type \in {REQ_DATA, REQ_SERIAL_NUMBER, REQ_LOGIN}
    /\ fr_data \in FramePayloads
    /\ fr_wire = <<>>
    /\ fr_noise = "none"
    /\ fr_got = [raised |-> "idle"]
    /\ fr_pc = "start"
    /\ ObfIdle
    /\ SeIdle
    /\ MoIdle
    /\ TyIdle
    /\ HiIdle
    /\ KsIdle
    /\ CrIdle
    /\ NsIdle

\* bytes(MnetPacket(dst, src, type, len(data), data)) goes on the wire
FrameBuild ==
    /\ fr_pc = "start"
    /\ MnetPacketFits(fr_data)
    /\ fr_wire' = PacketBytes(create_packet(fr_src, fr_dst, fr_type, fr_data))
    /\ fr_pc' = "built"
    /\ UNCHANGED <<fr_dst, fr_src, fr_type, fr_data, fr_noise, fr_got>>
    /\ UNCHANGED frOthers

\* MnetPacket.__init__ raises OverflowError: no frame
FrameBuildOverflow ==
    /\ fr_pc = "start"
    /\ ~MnetPacketFits(fr_data)
    /\ fr_pc' = "overflow"
    /\ UNCHANGED <<fr_dst, fr_src, fr_type, fr_data, fr_wire, fr_noise, fr_got>>
    /\ UNCHANGED frOthers

\* position in the wire of the byte each kind of damage hits
NoisePos(kind, wire) ==
    CASE kind = "soh" -> 1
      [] kind = "eot" -> Len(wire)
      [] kind = "crc" -> Len(wire) - 1
      [] kind = "body" -> 2

\* the line damages one byte of the frame in flight
FrameNoise ==
    /\ fr_pc = "built"
    /\ fr_noise = "none"
    /\ \E kind \in {"soh", "eot", "crc", "body"}, v \in NoiseBytes :
          /\ fr_wire[NoisePos(kind, fr_wire)] # v
          /\ fr_wire' = [fr_wire EXCEPT ![NoisePos(kind, fr_wire)] = v]
          /\ fr_noise' = kind
    /\ UNCHANGED <<fr_dst, fr_src, fr_type, fr_data, fr_got, fr_pc>>
    /\ UNCHANGED frOthers

\* read_packet on the bytes that arrived
FrameRead ==
    /\ fr_pc = "built"
    /\ fr_got' = read_packet(fr_wire)
    /\ fr_pc' = "read"
    /\ UNCHANGED <<fr_dst, fr_src, fr_type, fr_data, fr_wire, fr_noise>>
    /\ UNCHANGED frOthers

FrameNext == FrameBuild \/ FrameBuildOverflow \/ FrameNoise \/ FrameRead

SpecFrame == FrameInit /\ [][FrameNext]_vars

\* number of 0xFF bytes in a byte string
RECURSIVE CountFF(_, _)
CountFF(bs, i) ==
    IF i > Len(bs) THEN 0 ELSE (IF bs[i] = 255 THEN 1 ELSE 0) + CountFF(bs, i + 1)

\* a byte string with every pair 0xFF 0xFF made one 0xFF
RECURSIVE Unstuffed(_, _)
Unstuffed(bs, i) ==
    IF i > Len(bs) THEN <<>>
    ELSE IF bs[i] = 255 /\ i < Len(bs) /\ bs[i + 1] = 255
         THEN <<255>> \o Unstuffed(bs, i + 2)
         ELSE <<bs[i]>> \o Unstuffed(bs, i + 1)

\* the frame read_packet was given fails one of the three checks of the frame
FrameIsBad(wire) ==
    \/ wire[1] # SOH
    \/ wire[Len(wire)] # EOT
    \/ checksum(SubSeq(wire, 2, Len(wire) - 3))
          # from_bytes2(SubSeq(wire, Len(wire) - 2, Len(wire) - 1))

-----------------------------------------------------------------------------
(* C2: a frame built by the encoder and parsed by read_packet from the same *)
(* bytes gives back (dst, src, type, payload), also for payloads that hold  *)
(* 0xFF bytes.                                                              *)
C2_FrameRoundTrip ==
    (fr_pc = "read" /\ fr_noise = "none") =>
        /\ fr_got.raised = "none"
        /\ fr_got.packet.destination = fr_dst
        /\ fr_got.packet.source = fr_src
        /\ fr_got.packet.packet_type = fr_type
        /\ fr_got.packet.data = fr_data

(* C3: read_packet rejects a frame whose first byte is not SOH, whose last  *)
(* byte is not EOT, or whose CRC differs from the one recomputed; no such   *)
(* frame is returned as a packet.                                           *)
C3_BadFrameRejected ==
    (fr_pc = "read" /\ FrameIsBad(fr_wire)) => fr_got.raised # "none"

(* C4: the frame is 0x01, dst, src, type, L, stuffed, crc_hi crc_lo, 0x04   *)
(* with stuffed the payload with every 0xFF doubled, L the length of        *)
(* stuffed, the CRC taken over dst, src, type, L, stuffed, and 9 + L bytes  *)
(* in all.                                                                  *)
C4_FrameLayout ==
    (fr_pc = "built" /\ fr_noise = "none") =>
        LET n == Len(fr_wire)
            L == fr_wire[6]
            stuffed == SubSeq(fr_wire, 7, n - 3)
        IN  /\ n = 9 + L
            /\ fr_wire[1] = 1
            /\ <<fr_wire[2]>> = fr_dst
            /\ <<fr_wire[3]>> = fr_src
            /\ SubSeq(fr_wire, 4, 5) = fr_type
            /\ L = Len(fr_data) + CountFF(fr_data, 1)
            /\ Len(stuffed) = L
            /\ CountFF(stuffed, 1) = 2 * CountFF(fr_data, 1)
            /\ Unstuffed(stuffed, 1) = fr_data
            /\ fr_wire[n - 2] * 256 + fr_wire[n - 1] = checksum(SubSeq(fr_wire, 2, n - 3))
            /\ fr_wire[n] = 4

\* a frame whose payload holds a 0xFF and another byte
C4_Witness ==
    /\ fr_pc = "built"
    /\ fr_noise = "none"
    /\ Len(fr_data) = 3
    /\ CountFF(fr_data, 1) = 1
    /\ fr_wire[6] = 4
    /\ Len(fr_wire) = 13

-----------------------------------------------------------------------------
(* SpecSession: one caller drives one Mnet session through its public       *)
(* operations; the controller answers each frame, or the transport fails.   *)
(* An operation is cut at its blocking calls: device.write and the reads of *)
(* read_packet.                                                             *)

\* serial numbers the controller may have (below 2^31): 01 02 03 04, 12345678
\* and 0, which is a serial number and not None
SessionSerials == {<<1, 2, 3, 4>>, <<0, 188, 97, 78>>, <<0, 0, 0, 0>>}

\* typed-value blocks the controller may answer a data request with:
\* u16 1234 / 10^2, absent, the string "AB", the instant 86400, the sentinel
\* instant 2032-05-09 06:24:00, an unknown data type, an unknown conversion type,
\* a signed 32 with 2 of its 4 bytes
TypedSamples ==
    { <<4, 1, 0, 2, 2, 4, 210>>,
      <<0, 0, 0, 0, 0>>,
      <<9, 0, 0, 0, 3, 65, 66, 0>>,
      <<6, 0, 0, 0, 4, 0, 1, 81, 128>>,
      <<6, 0, 0, 0, 4, 98, 122, 5, 0>>,
      <<8, 0, 0, 0, 2, 0, 7>>,
      <<4, 9, 0, 0, 2, 0, 7>>,
      <<5, 0, 0, 0, 4, 0, 7>> }

\* elements of a multi-data response: main-id, sub-id, typed-value block
ElemGood == <<156, 67, 0, 0, 4, 0, 0, 0, 2, 0, 7>>
ElemGood2 == <<156, 70, 0, 0, 3, 1, 0, 1, 2, 255, 254>>
ElemBadType == <<156, 70, 0, 0, 8, 0, 0, 0, 2, 0, 7>>
ElemBadConv == <<156, 70, 0, 0, 4, 9, 0, 0, 2, 0, 7>>
ElemShort == <<156, 70, 0, 0, 5, 0, 0, 0, 2, 0, 7>>

\* bodies the controller may answer a multi-data request with
MultiSamples ==
    { <<>>, <<0>>, <<1>> \o ElemGood, <<1>> \o ElemGood2,
      <<2>> \o ElemGood \o ElemGood2,
      <<2>> \o ElemGood \o ElemBadType,
      <<2>> \o ElemGood \o ElemBadConv,
      <<2>> \o ElemGood \o ElemShort,
      <<2>> \o ElemBadType \o ElemGood }

\* payloads of the answer to a login, a command or a write
AckSamples == {<<>>, <<6>>}

\* payloads of the answer to a serial-number request: the serial, or 3 bytes
SerialReplies(ctl) == {ctl, <<1, 2, 3>>}

\* the payloads the controller may answer a request of this type with; data
\* responses are obfuscated with the key of the controller's serial
ReplyPayloads(packet_type, ctl) ==
    CASE packet_type = REQ_SERIAL_NUMBER -> SerialReplies(ctl)
      [] packet_type = REQ_DATA -> {encode(tv, encode_serial(ctl)) : tv \in TypedSamples}
      [] packet_type = REQ_MULTIPLE_DATA ->
            {encode(b, encode_serial(ctl)) : b \in MultiSamples}
      [] OTHER -> AckSamples

\* the bytes the transport delivers: the controller's frame, or nothing at all
\* (a timeout, a closed connection)
NoReply == <<>>
ReplyFrame(packet_type, payload) ==
    PacketBytes(MnetPacket(CLIENT_ID, DESTINATION, packet_type, Len(payload), payload, NoCrc))
Deliveries(packet_type, ctl) ==
    {ReplyFrame(packet_type, pl) : pl \in ReplyPayloads(packet_type, ctl)} \cup {NoReply}

\* the datetimes set_controller_time is called with
Datetime(day, second, microsecond, tzinfo) ==
    [day |-> day, second |-> second, microsecond |-> microsecond, tzinfo |-> tzinfo]

SessionTimes ==
    { Datetime(0, 0, 0, <<0>>),                    \* 1980-01-01 00:00:00 UTC, the epoch
      Datetime(0, 7200, 250000, <<7200>>),         \* 1980-01-01 02:00:00.25 +02:00
      Datetime(1, 86399, 999999, <<0>>),           \* 1980-01-02 23:59:59.999999 UTC
      Datetime(100, 82800, 1, <<-18000>>),         \* 1980-04-10 23:00:00.000001 -05:00
      Datetime(16817, 66013, 0, <<0>>),            \* 2026-01-16 18:20:13 UTC (test_mnet.py)
      Datetime(16817, 66013, 500000, <<>>),        \* the same reading half a second on, naive
      Datetime(19122, 23040, 0, <<0>>),            \* 2032-05-09 06:24:00 UTC
      Datetime(24855, 11647, 999999, <<0>>) }      \* 2048-01-19 03:14:07.999999 UTC

\* a request list of 64 pairs: its body is 1 + 64 * 4 = 257 bytes long
LongList == [j \in 1..64 |-> <<DATA_ID_WIND_SPEED, j - 1>>]

\* the operations the caller may call
SessionOps ==
    { [name |-> "login"],
      [name |-> "send_command", command_id |-> DATA_COMMAND_START],
      [name |-> "request_data", data_id |-> DATA_ID_WIND_SPEED, sub_id |-> 0],
      [name |-> "request_data", data_id |-> GRID_FREQUENCY, sub_id |-> 4000],
      [name |-> "request_multiple_data",
       datasubids |-> <<<<DATA_ID_WIND_SPEED, 0>>, <<DATA_ID_ROTOR_REVS, 0>>>>],
      [name |-> "request_multiple_data", datasubids |-> LongList],
      [name |-> "get_alarm_record", sub_id |-> 5] }
    \cup {[name |-> "set_controller_time", time |-> t] : t \in SessionTimes}

\* entries of se_log
Event(ev, packet_type, data, key) ==
    [ev |-> ev, packet_type |-> packet_type, data |-> data, key |-> key]

SessionInit ==
    /\ se_ctl \in SessionSerials
    /\ se_serial = NoSerial
    /\ se_encoded_serial = NoKey
    /\ se_pc = "idle"
    /\ se_op = NoOp
    /\ se_step = 0
    /\ se_vals = <<>>
    /\ se_log = <<>>
    /\ se_result = [raised |-> "none"]
    /\ se_fresh = FALSE
    /\ se_nops = 0
    /\ se_nserial = 0
    /\ se_first = <<>>
    /\ se_clean = TRUE
    /\ se_keyed_by = <<>>
    /\ ObfIdle
    /\ FrIdle
    /\ MoIdle
    /\ TyIdle
    /\ HiIdle
    /\ KsIdle
    /\ CrIdle
    /\ NsIdle

\* the caller calls a public operation
SessCall ==
    /\ se_pc = "idle"
    /\ se_nops < MaxOps
    /\ \E op \in SessionOps : se_op' = op
    /\ se_step' = 0
    /\ se_vals' = <<>>
    /\ se_log' = <<>>
    /\ se_result' = [raised |-> "pending"]
    /\ se_fresh' = (se_serial = NoSerial)
    /\ se_nops' = se_nops + 1
    /\ se_pc' = "call"
    /\ UNCHANGED <<se_ctl, se_serial, se_encoded_serial, se_nserial, se_first, se_clean,
                   se_keyed_by>>
    /\ UNCHANGED seOthers

\* _ensure_serial_available finds serial None: get_serial_number writes its frame
SessWriteSerial ==
    /\ se_pc = "call"
    /\ EnsureNeeded(se_serial)
    /\ se_log' = Append(se_log,
          Event("tx", REQ_SERIAL_NUMBER,
                PacketBytes(create_packet(CLIENT_ID, DESTINATION, REQ_SERIAL_NUMBER, <<>>)),
                NoKey))
    /\ se_nserial' = se_nserial + 1
    /\ se_first' = IF se_first = <<>> THEN REQ_SERIAL_NUMBER ELSE se_first
    /\ se_pc' = "serial_wait"
    /\ UNCHANGED <<se_ctl, se_serial, se_encoded_serial, se_op, se_step, se_vals, se_result,
                   se_fresh, se_nops, se_clean, se_keyed_by>>
    /\ UNCHANGED seOthers

\* get_serial_number reads the reply; _ensure_serial_available stores the serial
\* and the key (struct.unpack('!L', ...) raises unless the payload has 4 bytes)
SessReadSerial ==
    /\ se_pc = "serial_wait"
    /\ \E rx \in Deliveries(REQ_SERIAL_NUMBER, se_ctl) :
          LET r == read_packet(rx)
          IN  IF r.raised # "none"
              THEN /\ se_log' = Append(se_log, Event("error", REQ_SERIAL_NUMBER, <<>>, NoKey))
                   /\ se_result' = Propagate(se_op, r.raised)
                   /\ se_pc' = "idle"
                   /\ se_clean' = FALSE
                   /\ UNCHANGED <<se_serial, se_encoded_serial, se_keyed_by>>
              ELSE IF Len(r.packet.data) # 4
              THEN /\ se_log' = Append(se_log,
                         Event("rx", r.packet.packet_type, r.packet.data, NoKey))
                   /\ se_result' = Propagate(se_op, "struct.error")
                   /\ se_pc' = "idle"
                   /\ se_clean' = FALSE
                   /\ UNCHANGED <<se_serial, se_encoded_serial, se_keyed_by>>
              ELSE /\ se_log' = Append(se_log,
                         Event("rx", r.packet.packet_type, r.packet.data, NoKey))
                   /\ se_serial' = from_bytes4(r.packet.data)
                   /\ se_encoded_serial' = encode_serial(r.packet.data)
                   /\ se_keyed_by' = r.packet.data
                   /\ se_pc' = "send"
                   /\ UNCHANGED <<se_result, se_clean>>
    /\ UNCHANGED <<se_ctl, se_op, se_step, se_vals, se_fresh, se_nops, se_nserial, se_first>>
    /\ UNCHANGED seOthers

\* the operation is about to build and write its own request
AtRequest == se_pc = "send" \/ (se_pc = "call" /\ ~EnsureNeeded(se_serial))

\* login calls encode before send_packet
EncodeEvents ==
    IF se_op.name = "login"
    THEN <<Event("encode", REQ_LOGIN, create_login_packet_data, se_encoded_serial)>>
    ELSE <<>>

\* send_packet builds the frame and writes it; MnetPacket raises OverflowError
\* when the escaped payload does not fit the length byte
SessWriteRequest ==
    /\ AtRequest
    /\ LET req == Request(se_op, se_step, se_encoded_serial)
       IN  IF ~MnetPacketFits(req.data)
           THEN /\ se_log' = se_log \o EncodeEvents
                /\ se_result' = Propagate(se_op, "OverflowError")
                /\ se_pc' = "idle"
                /\ UNCHANGED se_first
           ELSE /\ se_log' = se_log \o EncodeEvents \o
                     <<Event("tx", req.packet_type,
                             PacketBytes(create_packet(CLIENT_ID, DESTINATION,
                                                       req.packet_type, req.data)),
                             NoKey)>>
                /\ se_first' = IF se_first = <<>> THEN req.packet_type ELSE se_first
                /\ se_pc' = "wait"
                /\ UNCHANGED se_result
    /\ UNCHANGED <<se_ctl, se_serial, se_encoded_serial, se_op, se_step, se_vals, se_fresh,
                   se_nops, se_nserial, se_clean, se_keyed_by>>
    /\ UNCHANGED seOthers

\* device.write raises: nothing is written and the exception leaves send_packet
SessWriteFail ==
    /\ se_pc \in {"call", "send"}
    /\ se_log' = se_log \o (IF AtRequest THEN EncodeEvents ELSE <<>>) \o
          <<Event("error",
                  IF AtRequest THEN Request(se_op, se_step, se_encoded_serial).packet_type
                  ELSE REQ_SERIAL_NUMBER,
                  <<>>, NoKey)>>
    /\ se_result' = Propagate(se_op, "TransportError")
    /\ se_pc' = "idle"
    /\ UNCHANGED <<se_ctl, se_serial, se_encoded_serial, se_op, se_step, se_vals, se_fresh,
                   se_nops, se_nserial, se_first, se_clean, se_keyed_by>>
    /\ UNCHANGED seOthers

\* send_packet reads the response and the operation works on it
SessReadResponse ==
    /\ se_pc = "wait"
    /\ LET req == Request(se_op, se_step, se_encoded_serial)
       IN  \E rx \in Deliveries(req.packet_type, se_ctl) :
          LET r == read_packet(rx)
          IN  IF r.raised # "none"
              THEN /\ se_log' = Append(se_log, Event("error", req.packet_type, <<>>, NoKey))
                   /\ se_result' = Propagate(se_op, r.raised)
                   /\ se_pc' = "idle"
                   /\ se_clean' = FALSE
                   /\ UNCHANGED <<se_step, se_vals>>
              ELSE
              LET a == AfterResponse(se_op, se_step, se_vals, r.packet, se_encoded_serial)
              IN  /\ se_log' = se_log \o
                        <<Event("rx", r.packet.packet_type, r.packet.data, NoKey)>> \o
                        (IF DecodesResponse(se_op)
                         THEN <<Event("decode", req.packet_type, r.packet.data,
                                      se_encoded_serial)>>
                         ELSE <<>>)
                  /\ UNCHANGED se_clean
                  /\ IF a.raised = "none" /\ "next" \in DOMAIN a
                     THEN /\ se_step' = se_step + 1
                          /\ se_vals' = Append(se_vals, a.value)
                          /\ se_pc' = "call"
                          /\ UNCHANGED se_result
                     ELSE /\ se_result' = a
                          /\ se_pc' = "idle"
                          /\ UNCHANGED <<se_step, se_vals>>
    /\ UNCHANGED <<se_ctl, se_serial, se_encoded_serial, se_op, se_fresh, se_nops,
                   se_nserial, se_first, se_keyed_by>>
    /\ UNCHANGED seOthers

\* the owner of the session resets it (TurbineMonitor._reconnect_device:
\* mnet_client.serial = None, mnet_client.encoded_serial = None); the record of
\* the last operation is dropped with it
SessReset ==
    /\ se_pc = "idle"
    /\ se_nops > 0
    /\ se_first # <<>> \/ ~se_clean
    /\ se_serial' = NoSerial
    /\ se_encoded_serial' = NoKey
    /\ se_nserial' = 0
    /\ se_first' = <<>>
    /\ se_clean' = TRUE
    /\ se_keyed_by' = <<>>
    /\ se_op' = NoOp
    /\ se_step' = 0
    /\ se_vals' = <<>>
    /\ se_log' = <<>>
    /\ se_result' = [raised |-> "none"]
    /\ se_fresh' = FALSE
    /\ UNCHANGED <<se_ctl, se_pc, se_nops>>
    /\ UNCHANGED seOthers

SessionNext ==
    \/ SessCall
    \/ SessWriteSerial
    \/ SessReadSerial
    \/ SessWriteRequest
    \/ SessWriteFail
    \/ SessReadResponse
    \/ SessReset

SpecSession == SessionInit /\ [][SessionNext]_vars

-----------------------------------------------------------------------------
(* Claims checked under SpecSession                                         *)

IsTx(e) == e.ev = "tx"
IsRx(e) == e.ev = "rx"
IsError(e) == e.ev = "error"
IsCodec(e) == e.ev \in {"encode", "decode"}

\* the frames the operation wrote so far, in order
Written == SelectSeq(se_log, IsTx)

\* the operation has returned or raised
Returned == se_pc = "idle" /\ se_op # NoOp

\* the frame get_serial_number writes: type 0x0C2E, empty payload
SerialRequestFrame ==
    PacketBytes(MnetPacket(DESTINATION, CLIENT_ID, <<12, 46>>, 0, <<>>, NoCrc))

\* C5: on one session, as long as every transport read succeeded and the
\* serial-number reply had its 4 bytes, the frames written since the last explicit
\* reset hold exactly one REQ_SERIAL_NUMBER frame (empty payload), it is the first
\* of them, and every encode and decode call since then used the key derived from
\* that frame's reply.
C5_SerialFetchedOnceAndCached ==
    se_clean =>
        /\ se_nserial <= 1
        /\ se_first # <<>> => (se_first = <<12, 46>> /\ se_nserial = 1)
        /\ \A i \in 1..Len(se_log) :
              /\ (IsTx(se_log[i]) /\ se_log[i].packet_type = <<12, 46>>)
                    => se_log[i].data = SerialRequestFrame
              /\ IsCodec(se_log[i])
                    => /\ Len(se_keyed_by) = 4
                       /\ se_log[i].key = encode_serial(se_keyed_by)
                       /\ se_nserial = 1
        /\ se_serial # NoSerial
              => (se_nserial = 1 /\ se_encoded_serial = encode_serial(se_keyed_by))

\* a third operation on a keyed session has decoded a response with the cached
\* key, after an earlier operation of the session fetched the serial
C5_Witness ==
    /\ se_clean
    /\ se_nops = MaxOps
    /\ ~se_fresh
    /\ se_nserial = 1
    /\ Returned
    /\ \E i \in 1..Len(se_log) : se_log[i].ev = "decode"

\* C6: login on a fresh (unkeyed) session writes at most two frames, the first
\* the REQ_SERIAL_NUMBER frame; when it returns it has written exactly two, the
\* second after the serial reply was read and being the REQ_LOGIN frame whose
\* payload is encode(login descriptor, key of that reply), and what it returns is
\* the response packet, whatever its payload.
C6_FreshLoginWritesTwoFrames ==
    (se_op.name = "login" /\ se_fresh) =>
        /\ Len(Written) <= 2
        /\ Len(Written) >= 1 => Written[1].data = SerialRequestFrame
        /\ (Returned /\ se_result.raised = "none") =>
              /\ Len(se_log) = 5
              /\ se_log[1].ev = "tx" /\ se_log[1].data = SerialRequestFrame
              /\ se_log[2].ev = "rx" /\ se_log[2].packet_type = <<12, 46>>
              /\ se_log[3].ev = "encode"
              /\ se_log[4].ev = "tx"
              /\ se_log[4].packet_type = <<19, 161>>
              /\ se_log[4].data =
                    PacketBytes(MnetPacket(DESTINATION, CLIENT_ID, <<19, 161>>, 32,
                                           encode(create_login_packet_data,
                                                  encode_serial(se_log[2].data)),
                                           NoCrc))
              /\ se_log[5].ev = "rx"
              /\ se_result.value.kind = "MnetPacket"
              /\ se_result.value.data = se_log[5].data

\* a login on a fresh session has returned a response with a non-empty payload
C6_Witness ==
    /\ se_op.name = "login"
    /\ se_fresh
    /\ Returned
    /\ se_result.raised = "none"
    /\ Len(Written) = 2
    /\ se_result.value.data # <<>>

\* the requests the operation had completed before log entry i
StepAt(i) == Cardinality({j \in 1..i : se_log[j].ev = "decode"})

\* the clear request body of the operation at its step-th request
ClearBody(step) ==
    CASE se_op.name = "send_command" -> se_op.command_id
      [] se_op.name = "request_data" -> se_op.data_id \o to_bytes2(se_op.sub_id)
      [] se_op.name = "get_alarm_record" ->
            (IF step = 0 THEN <<199, 59>> ELSE <<199, 60>>) \o to_bytes2(se_op.sub_id)
      [] se_op.name = "set_controller_time" ->
            <<195, 83, 0, 1>> \o to_bytes4(controller_timestamp(se_op.time))
      [] se_op.name = "request_multiple_data" ->
            <<2>> \o se_op.datasubids[1][1] \o to_bytes2(se_op.datasubids[1][2])
                  \o se_op.datasubids[2][1] \o to_bytes2(se_op.datasubids[2][2])
      [] OTHER -> <<>>

\* C7: encode is called for the payload of REQ_LOGIN and for no other outbound
\* payload: the serial-number request is empty and the data, multi-data, write
\* and command frames carry their bodies as they are; decode is called on the
\* response payload of REQ_DATA and REQ_MULTIPLE_DATA and on no other response,
\* the serial-number response least of all.
C7_ObfuscationOnlyWhereStated ==
    \A i \in 1..Len(se_log) :
        LET e == se_log[i]
        IN  /\ e.ev = "encode" =>
                  /\ e.packet_type = <<19, 161>>
                  /\ i < Len(se_log) =>
                        /\ se_log[i + 1].ev \in {"tx", "error"}
                        /\ se_log[i + 1].packet_type = <<19, 161>>
            /\ (e.ev = "tx" /\ e.packet_type = <<19, 161>>) =>
                  (i > 1 /\ se_log[i - 1].ev = "encode")
            /\ (e.ev = "tx" /\ e.packet_type = <<12, 46>>) => e.data = SerialRequestFrame
            /\ (e.ev = "tx" /\ e.packet_type \notin {<<19, 161>>, <<12, 46>>}) =>
                  e.data = PacketBytes(MnetPacket(DESTINATION, CLIENT_ID, e.packet_type,
                                                  Len(ClearBody(StepAt(i))),
                                                  ClearBody(StepAt(i)), NoCrc))
            /\ e.ev = "decode" =>
                  /\ e.packet_type \in {<<12, 40>>, <<12, 42>>}
                  /\ i > 1 /\ se_log[i - 1].ev = "rx" /\ se_log[i - 1].data = e.data
            /\ (e.ev = "rx" /\ e.packet_type \in {<<12, 40>>, <<12, 42>>}) =>
                  (i < Len(se_log) /\ se_log[i + 1].ev = "decode")
            /\ (e.ev = "rx" /\ e.packet_type \notin {<<12, 40>>, <<12, 42>>}) =>
                  (i = Len(se_log) \/ se_log[i + 1].ev # "decode")

\* a command went out in clear on a session that fetched its serial in the same
\* call, and its response was read without a decode
C7_Witness ==
    /\ se_op.name = "send_command"
    /\ se_fresh
    /\ Returned
    /\ se_result.raised = "none"
    /\ Len(se_log) = 4
    /\ se_log[2].ev = "rx" /\ se_log[2].packet_type = <<12, 46>>
    /\ se_log[4].ev = "rx" /\ se_log[4].packet_type = <<12, 50>>

\* C9: when the transport fails while an operation's frame is written or its
\* response is read, the operation raises to its caller, and no operation writes
\* more frames than its requests plus the serial-number request.
C9_TransportErrorsReachCaller ==
    /\ (Returned /\ \E i \in 1..Len(se_log) : IsError(se_log[i])) => se_result.raised # "none"
    /\ Len(Written) <= (IF se_op.name = "get_alarm_record" THEN 3 ELSE 2)

\* C10: when element j (counted from 0) of a multi-data response cannot be
\* decoded, request_multiple_data gives its caller the j values decoded before
\* it, and the session's serial and key stay as they were.
C10_PartialListKept ==
    (Returned /\ se_op.name = "request_multiple_data" /\ Len(se_log) > 0
        /\ se_log[Len(se_log)].ev = "decode") =>
        LET body == decode(se_log[Len(se_log)].data, se_log[Len(se_log)].key)
        IN  /\ se_encoded_serial = se_log[Len(se_log)].key
            /\ se_serial # NoSerial
            /\ (body = <<2>> \o ElemGood \o ElemBadType
                \/ body = <<2>> \o ElemGood \o ElemBadConv
                \/ body = <<2>> \o ElemGood \o ElemShort) =>
                   /\ "value" \in DOMAIN se_result
                   /\ se_result.value.kind = "list"
                   /\ Len(se_result.value.values) = 1

-----------------------------------------------------------------------------
(* SpecMonitor: src/turbine_monitor.py.  The thread of TurbineMonitor.run   *)
(* and the web server's thread share one Mnet session and one transport.    *)
(* Each Mnet call is cut at its device.write and at its response read; a    *)
(* thread's frame is outstanding from the one to the other.                 *)

\* the Mnet operation each TurbineMonitor method calls
MnetCall(where) ==
    CASE where \in {"login_to_turbine", "relogin"} -> "login"
      [] where = "execute_pending_command" -> "send_command"
      [] where = "sync_controller_time" -> "set_controller_time"
      [] where = "collect_display" -> "get_remote_display"
      [] where = "collect_data" -> "request_multiple_data"
      [] where = "reconnect_serial" -> "get_serial_number"
      [] where = "fetch_events" -> "get_events_batch"
      [] where = "fetch_alarm_history" -> "get_alarm_history_batch"

\* whether the method makes its Mnet call inside `with self.serial_lock`:
\* _reconnect_device calls get_serial_number outside it
UnderSerialLock(where) == where # "reconnect_serial"

\* whether the Mnet operation starts with _ensure_serial_available
\* (get_serial_number is the fetch itself)
CallsEnsure(call) == call # "get_serial_number"

\* exceptions an Mnet call raises: the connection errors run() answers with
\* _reconnect_device (BrokenPipeError, ConnectionError, OSError), and the others
MnetExceptions == {"OSError", "Exception"}

\* the serial the controller reports
MonitorSerial == from_bytes4(<<1, 2, 3, 4>>)

\* commands the handlers queue in one run of the model
MaxCommands == 2

\* mo_pending before any command: cmd is pending_command, 0 for None and n for
\* the n-th command queued; queued counts the commands queued; arg is the
\* command send_command was called with, sent the commands whose frame was
\* written, cleared those that were set to None without having been sent
NoCommand == [cmd |-> 0, queued |-> 0, arg |-> 0, sent |-> {}, cleared |-> {}]

\* TurbineMonitor.__init__ has run (its get_serial_number included, which leaves
\* mnet_client.serial None), run() has not
MonitorInit ==
    /\ mo_lock = "none"
    /\ mo_pc = [t \in Threads |-> IF t = "run" THEN "start" ELSE "idle"]
    /\ mo_where = [t \in Threads |-> "none"]
    /\ mo_exc = [t \in Threads |-> "none"]
    /\ mo_out = {}
    /\ mo_serial = NoSerial
    /\ mo_pending = NoCommand
    /\ mo_web_on = FALSE
    /\ ObfIdle
    /\ FrIdle
    /\ SeIdle
    /\ TyIdle
    /\ HiIdle
    /\ KsIdle
    /\ CrIdle
    /\ NsIdle

\* thread t enters method m
Enter(t, m) ==
    /\ mo_where' = [mo_where EXCEPT ![t] = m]
    /\ mo_pc' = [mo_pc EXCEPT ![t] = IF UnderSerialLock(m) THEN "acquire" ELSE "call"]
    /\ mo_exc' = [mo_exc EXCEPT ![t] = "none"]

\* run(): starts the web server thread and calls _login_to_turbine
RunStart ==
    /\ mo_pc["run"] = "start"
    /\ mo_web_on' = TRUE
    /\ Enter("run", "login_to_turbine")
    /\ UNCHANGED <<mo_lock, mo_out, mo_serial, mo_pending>>
    /\ UNCHANGED moOthers

\* the top of run()'s loop: _execute_pending_command, if self.pending_command
RunExecutePendingCommand ==
    /\ mo_pc["run"] = "loop"
    /\ IF mo_pending.cmd # 0
       THEN Enter("run", "execute_pending_command")
       ELSE /\ mo_pc' = [mo_pc EXCEPT !["run"] = "sync"]
            /\ UNCHANGED <<mo_where, mo_exc>>
    /\ UNCHANGED <<mo_lock, mo_out, mo_serial, mo_pending, mo_web_on>>
    /\ UNCHANGED moOthers

\* _sync_controller_time: if the interval has elapsed (or no sync yet)
RunSyncControllerTime ==
    /\ mo_pc["run"] = "sync"
    /\ \E due \in BOOLEAN :
          IF due
          THEN Enter("run", "sync_controller_time")
          ELSE /\ mo_pc' = [mo_pc EXCEPT !["run"] = "display"]
               /\ UNCHANGED <<mo_where, mo_exc>>
    /\ UNCHANGED <<mo_lock, mo_out, mo_serial, mo_pending, mo_web_on>>
    /\ UNCHANGED moOthers

\* a socket handler runs on the web server's thread: handle_get_events or
\* handle_get_alarms
WebFetch ==
    /\ mo_web_on
    /\ mo_pc["web"] = "idle"
    /\ \E m \in {"fetch_events", "fetch_alarm_history"} : Enter("web", m)
    /\ UNCHANGED <<mo_lock, mo_out, mo_serial, mo_pending, mo_web_on>>
    /\ UNCHANGED moOthers

\* _handle_command_message / _handle_socket_command queue a command, on the MQTT
\* client's thread or the web server's: self.pending_command = command_map[command],
\* whatever pending_command holds and whatever run() is doing
QueueCommand ==
    /\ mo_pending.queued < MaxCommands
    /\ mo_pending' = [mo_pending EXCEPT !.cmd = mo_pending.queued + 1,
                                        !.queued = mo_pending.queued + 1]
    /\ UNCHANGED <<mo_lock, mo_pc, mo_where, mo_exc, mo_out, mo_serial, mo_web_on>>
    /\ UNCHANGED moOthers

\* with self.serial_lock: (blocks while another thread holds it);
\* _execute_pending_command then reads self.pending_command again, as the
\* argument of send_command
Acquire(t) ==
    /\ mo_pc[t] = "acquire"
    /\ mo_lock = "none"
    /\ mo_lock' = t
    /\ mo_pc' = [mo_pc EXCEPT ![t] = "call"]
    /\ mo_pending' = IF mo_where[t] = "execute_pending_command"
                     THEN [mo_pending EXCEPT !.arg = mo_pending.cmd]
                     ELSE mo_pending
    /\ UNCHANGED <<mo_where, mo_exc, mo_out, mo_serial, mo_web_on>>
    /\ UNCHANGED moOthers

\* the serial-number frame is written: by _ensure_serial_available when serial is
\* None, or by get_serial_number called directly; or device.write raises
WriteSerial(t) ==
    /\ mo_pc[t] = "call"
    /\ CallsEnsure(MnetCall(mo_where[t])) => EnsureNeeded(mo_serial)
    /\ \/ /\ mo_out' = mo_out \cup {t}
          /\ mo_pc' = [mo_pc EXCEPT ![t] = "serial_wait"]
          /\ UNCHANGED mo_exc
       \/ /\ \E exc \in MnetExceptions : mo_exc' = [mo_exc EXCEPT ![t] = exc]
          /\ mo_pc' = [mo_pc EXCEPT ![t] = "leave"]
          /\ UNCHANGED mo_out
    /\ UNCHANGED <<mo_lock, mo_where, mo_serial, mo_pending, mo_web_on>>
    /\ UNCHANGED moOthers

\* the serial-number reply is read, or the read raises; _ensure_serial_available
\* stores the serial, _reconnect_device's own call stores it in the monitor only
ReadSerial(t) ==
    /\ mo_pc[t] = "serial_wait"
    /\ mo_out' = mo_out \ {t}
    /\ \/ /\ IF CallsEnsure(MnetCall(mo_where[t]))
             THEN /\ mo_serial' = MonitorSerial
                  /\ mo_pc' = [mo_pc EXCEPT ![t] = "send"]
             ELSE /\ mo_pc' = [mo_pc EXCEPT ![t] = "leave"]
                  /\ UNCHANGED mo_serial
          /\ UNCHANGED mo_exc
       \/ /\ \E exc \in MnetExceptions : mo_exc' = [mo_exc EXCEPT ![t] = exc]
          /\ mo_pc' = [mo_pc EXCEPT ![t] = "leave"]
          /\ UNCHANGED mo_serial
    /\ UNCHANGED <<mo_lock, mo_where, mo_pending, mo_web_on>>
    /\ UNCHANGED moOthers

\* the operation's own frame is written (send_packet), or building or writing
\* it raises
WriteRequest(t) ==
    /\ \/ mo_pc[t] = "send"
       \/ /\ mo_pc[t] = "call"
          /\ CallsEnsure(MnetCall(mo_where[t]))
          /\ ~EnsureNeeded(mo_serial)
    /\ \/ /\ mo_out' = mo_out \cup {t}
          /\ mo_pc' = [mo_pc EXCEPT ![t] = "wait"]
          /\ mo_pending' = IF mo_where[t] = "execute_pending_command"
                           THEN [mo_pending EXCEPT !.sent = @ \cup {mo_pending.arg}]
                           ELSE mo_pending
          /\ UNCHANGED mo_exc
       \/ /\ \E exc \in MnetExceptions : mo_exc' = [mo_exc EXCEPT ![t] = exc]
          /\ mo_pc' = [mo_pc EXCEPT ![t] = "leave"]
          /\ UNCHANGED <<mo_out, mo_pending>>
    /\ UNCHANGED <<mo_lock, mo_where, mo_serial, mo_web_on>>
    /\ UNCHANGED moOthers

\* the response is read and the operation returns, or the read or the decoding
\* raises
ReadResponse(t) ==
    /\ mo_pc[t] = "wait"
    /\ mo_out' = mo_out \ {t}
    /\ mo_pc' = [mo_pc EXCEPT ![t] = "leave"]
    /\ \/ UNCHANGED mo_exc
       \/ \E exc \in MnetExceptions : mo_exc' = [mo_exc EXCEPT ![t] = exc]
    /\ UNCHANGED <<mo_lock, mo_where, mo_serial, mo_pending, mo_web_on>>
    /\ UNCHANGED moOthers

\* where run() goes when the Mnet call of method `where` has returned (exc "none")
\* or raised: login before the loop is outside every try; _collect_turbine_data's
\* request_multiple_data is caught by run()'s handlers, the connection errors by
\* the one that reconnects; _reconnect_device is inside a try of its own
RunAfter(where, exc) ==
    CASE where = "login_to_turbine" -> IF exc = "none" THEN "loop" ELSE "dead"
      [] where = "execute_pending_command" -> "sync"
      [] where = "sync_controller_time" -> "display"
      [] where = "collect_display" -> "collect"
      [] where = "collect_data" -> IF exc = "OSError" THEN "reconnect" ELSE "loop"
      [] where = "reconnect_serial" -> IF exc = "none" THEN "relogin" ELSE "loop"
      [] where = "relogin" -> "loop"

\* Mnet._alarm_description_cache, which _reconnect_device clears, is not in
\* src/mnet.py; the Mnet that turbine_monitor.py is written for has it
AlarmDescriptionCacheExists == TRUE

\* the Mnet call of thread t is over: the with block releases the lock, the
\* method's handlers run, the thread goes on; _execute_pending_command's finally
\* clears pending_command
Leave(t) ==
    /\ mo_pc[t] = "leave"
    /\ mo_lock' = IF UnderSerialLock(mo_where[t]) THEN "none" ELSE mo_lock
    /\ mo_pc' = [mo_pc EXCEPT ![t] =
                    IF t = "web" THEN "idle" ELSE RunAfter(mo_where[t], mo_exc[t])]
    /\ mo_pending' = IF mo_where[t] = "execute_pending_command"
                     THEN [mo_pending EXCEPT !.cmd = 0,
                              !.cleared = @ \cup ({mo_pending.cmd} \ mo_pending.sent)]
                     ELSE mo_pending
    /\ UNCHANGED <<mo_where, mo_exc, mo_out, mo_serial, mo_web_on>>
    /\ UNCHANGED moOthers

\* _collect_turbine_data: get_remote_display under the lock and a try
RunCollectDisplay ==
    /\ mo_pc["run"] = "display"
    /\ Enter("run", "collect_display")
    /\ UNCHANGED <<mo_lock, mo_out, mo_serial, mo_pending, mo_web_on>>
    /\ UNCHANGED moOthers

\* _collect_turbine_data: request_multiple_data under the lock
RunCollectData ==
    /\ mo_pc["run"] = "collect"
    /\ Enter("run", "collect_data")
    /\ UNCHANGED <<mo_lock, mo_out, mo_serial, mo_pending, mo_web_on>>
    /\ UNCHANGED moOthers

\* _reconnect_device: reconnects or recreates the device, resets the session's
\* serial and key, clears the cache, then calls get_serial_number; an exception on
\* the way leaves to run()'s "Reconnection failed"
RunReconnectDevice ==
    /\ mo_pc["run"] = "reconnect"
    /\ \/ /\ AlarmDescriptionCacheExists
          /\ mo_serial' = NoSerial
          /\ Enter("run", "reconnect_serial")
       \/ /\ mo_pc' = [mo_pc EXCEPT !["run"] = "loop"]
          /\ mo_serial' \in {mo_serial, NoSerial}
          /\ UNCHANGED <<mo_where, mo_exc>>
    /\ UNCHANGED <<mo_lock, mo_out, mo_pending, mo_web_on>>
    /\ UNCHANGED moOthers

\* _reconnect_device: _login_to_turbine after the serial came back
RunRelogin ==
    /\ mo_pc["run"] = "relogin"
    /\ Enter("run", "relogin")
    /\ UNCHANGED <<mo_lock, mo_out, mo_serial, mo_pending, mo_web_on>>
    /\ UNCHANGED moOthers

MonitorNext ==
    \/ RunStart
    \/ RunExecutePendingCommand
    \/ RunSyncControllerTime
    \/ RunCollectDisplay
    \/ RunCollectData
    \/ RunReconnectDevice
    \/ RunRelogin
    \/ WebFetch
    \/ QueueCommand
    \/ \E t \in Threads : Acquire(t)
    \/ \E t \in Threads : WriteSerial(t)
    \/ \E t \in Threads : ReadSerial(t)
    \/ \E t \in Threads : WriteRequest(t)
    \/ \E t \in Threads : ReadResponse(t)
    \/ \E t \in Threads : Leave(t)

SpecMonitor == MonitorInit /\ [][MonitorNext]_vars

-----------------------------------------------------------------------------
(* Claim checked under SpecMonitor                                          *)

-----------------------------------------------------------------------------
(* SpecTyped: decode_data and decode_multiple_data applied to the typed     *)
(* blocks and multi-data bodies a controller may send.                      *)

\* every data-type tag the decoder knows (0..7, 9, 10) and two it does not
TyDataTypes == 0..11
\* every conversion-type tag the decoder knows (0..5) and one it does not
TyConvTypes == 0..6
TyConvValues == {0, 2}

\* data bytes after the 5-byte header: nothing, 86400 as 4 bytes, the sentinel
\* 2032-05-09 06:24:00 as 4 bytes, "AB" NUL, "12", a negative 16-bit value
TyData ==
    { <<>>, <<0, 1, 81, 128>>, <<98, 122, 5, 0>>, <<65, 66, 0>>, <<49, 50>>, <<255, 254>> }

\* struct.pack('!BBHB', data_type, conversion_type, conversion_value, length) + data
TypedBlock(data_type, conversion_type, conversion_value, data) ==
    <<data_type, conversion_type, conversion_value \div 256, conversion_value % 256,
      Len(data)>> \o data

TyBlocks ==
    { TypedBlock(dt, ct, cv, d) :
        dt \in TyDataTypes, ct \in TyConvTypes, cv \in TyConvValues, d \in TyData }

\* data ids of the request_data path: two of the deny-list, wind speed, the
\* controller time, and no id at all
TyIds == {from_bytes2(GRID_FREQUENCY), 51001, from_bytes2(DATA_ID_WIND_SPEED),
          from_bytes2(DATA_ID_CONTROLLER_TIME), NoDataId}

\* one element of a multi-data body: main-id, sub-id, typed block
Element(mainid, subid, block) == to_bytes2(mainid) \o to_bytes2(subid) \o block

\* elements that decode: type 6 under a deny-listed id and under another id, for
\* two sub-ids, an absent value, a scaled u16
TyGoodElems ==
    { Element(m, sb, TypedBlock(6, 0, 0, <<0, 1, 81, 128>>)) :
        m \in {from_bytes2(GRID_FREQUENCY), 51102, from_bytes2(DATA_ID_WIND_SPEED)},
        sb \in {0, 4000} }
    \cup { Element(from_bytes2(DATA_ID_ROTOR_REVS), 0, TypedBlock(0, 0, 0, <<>>)),
           Element(from_bytes2(DATA_ID_WIND_SPEED), 1, TypedBlock(4, 1, 1, <<5, 220>>)) }

\* elements that do not: unknown data type, unknown conversion type
TyBadElems ==
    { Element(from_bytes2(DATA_ID_WIND_SPEED), 0, TypedBlock(8, 0, 0, <<0, 7>>)),
      Element(from_bytes2(DATA_ID_WIND_SPEED), 0, TypedBlock(4, 9, 0, <<0, 7>>)) }

TyElems == TyGoodElems \cup TyBadElems

\* what may follow the last whole element: nothing, or the first 8 bytes of one
TyFragments == {<<>>, <<156, 67, 0, 0, 4, 0, 0, 0>>}

\* the elements of a body, up to MaxElems of them
TyElemSeqs == UNION {[1..n -> TyElems] : n \in 0..MaxElems}

RECURSIVE Flatten(_)
Flatten(seqs) == IF seqs = <<>> THEN <<>> ELSE Head(seqs) \o Flatten(Tail(seqs))

\* a multi-data body: count byte, elements, fragment
MultiBody(count, elems, fragment) == <<count>> \o Flatten(elems) \o fragment

TypedInit ==
    /\ ty_pc = "start"
    /\ ty_out = [raised |-> "pending"]
    /\ \/ /\ ty_path = "single"
          /\ ty_in \in TyBlocks
          /\ ty_id \in TyIds
          /\ ty_elems = <<>>
       \/ /\ ty_path = "multi"
          /\ ty_id = NoDataId
          /\ ty_elems \in TyElemSeqs
          /\ \/ ty_in = <<>> /\ ty_elems = <<>>
             \/ \E count \in 0..(MaxElems + 1), fragment \in TyFragments :
                   ty_in = MultiBody(count, ty_elems, fragment)
       \/ /\ ty_path = "cut"
          /\ ty_id = NoDataId
          /\ ty_elems \in TyElemSeqs \ {<<>>}
          /\ \E count \in 1..(MaxElems + 1) :
             \E k \in 1..(Len(MultiBody(count, ty_elems, <<>>)) - 1) :
                   ty_in = SubSeq(MultiBody(count, ty_elems, <<>>), 1, k)
    /\ ObfIdle
    /\ FrIdle
    /\ SeIdle
    /\ MoIdle
    /\ HiIdle
    /\ KsIdle
    /\ CrIdle
    /\ NsIdle

\* decode_data(data_in, data_id)
TypedDecodeData ==
    /\ ty_pc = "start"
    /\ ty_path = "single"
    /\ ty_out' = decode_data(ty_in, ty_id)
    /\ ty_pc' = "done"
    /\ UNCHANGED <<ty_path, ty_in, ty_id, ty_elems>>
    /\ UNCHANGED tyOthers

\* decode_multiple_data(data_in), on a whole body and on one that was cut short
TypedDecodeMultiple ==
    /\ ty_pc = "start"
    /\ ty_path \in {"multi", "cut"}
    /\ ty_out' = decode_multiple_data(ty_in)
    /\ ty_pc' = "done"
    /\ UNCHANGED <<ty_path, ty_in, ty_id, ty_elems>>
    /\ UNCHANGED tyOthers

TypedNext == TypedDecodeData \/ TypedDecodeMultiple

SpecTyped == TypedInit /\ [][TypedNext]_vars

-----------------------------------------------------------------------------
(* Claims checked under SpecTyped                                           *)

TyDone(path) == ty_pc = "done" /\ ty_path = path

\* the body holds no element that fails to decode
TyAllGood == \A i \in 1..Len(ty_elems) : ty_elems[i] \in TyGoodElems

\* C11: decode_multiple_data returns the empty list, without error, for an empty
\* body and for a body whose count byte is 0; and when fewer than 9 bytes remain
\* before the next element it stops without error and returns the elements
\* decoded so far, whatever the count byte says.
C11_EmptyAndShortBodies ==
    TyDone("multi") =>
        /\ ty_in = <<>> => ty_out = [raised |-> "none", results |-> <<>>]
        /\ (ty_in # <<>> /\ ty_in[1] = 0) => ty_out = [raised |-> "none", results |-> <<>>]
        /\ (ty_in # <<>> /\ TyAllGood) =>
              /\ ty_out.raised = "none"
              /\ Len(ty_out.results) = Min(ty_in[1], Len(ty_elems))
              /\ \A i \in 1..Len(ty_out.results) :
                    /\ to_bytes2(ty_out.results[i].mainid) = SubSeq(ty_elems[i], 1, 2)
                    /\ to_bytes2(ty_out.results[i].subid) = SubSeq(ty_elems[i], 3, 4)

\* a body that announces more elements than it holds and ends in 8 stray bytes
C11_Witness ==
    /\ TyDone("multi")
    /\ TyAllGood
    /\ Len(ty_elems) = 1
    /\ ty_in[1] = 3
    /\ Len(ty_in) = 1 + Len(ty_elems[1]) + 8
    /\ ty_out.raised = "none"
    /\ Len(ty_out.results) = 1

\* the main-id bytes of element i of the body
ElemMainId(i) == from_bytes2(SubSeq(ty_elems[i], 1, 2))
\* the data type of element i of the body
ElemDataType(i) == ty_elems[i][5]

IsNumber(value) == value.kind \in {"int", "float"}

\* C12: a value of data type 0x06 is returned as a number, never as an instant,
\* when its main-id is in the deny-list (0x9CAE, 0xC739, 0xC73A, 0xC79C, 0xC79D,
\* 0xC79E), on the request_data path and for each element of a multi-data
\* response, whatever the sub-id; under every other main-id it is returned as the
\* instant 1980-01-01 00:00:00 UTC plus the value in seconds.
C12_DenyListStaysNumeric ==
    /\ (TyDone("single") /\ ty_in[1] = 6 /\ ty_out.raised = "none") =>
          IF ty_id \in {40110, 51001, 51002, 51100, 51101, 51102}
          THEN IsNumber(ty_out.value)
          ELSE /\ ty_out.value.kind = "datetime"
               /\ IsNumber(ty_out.value.of)
               /\ ty_in[2] = 0 => ty_out.value.of = [kind |-> "int", v |-> unpack_L(ty_in)]
    /\ (TyDone("multi") /\ ty_out.raised = "none") =>
          \A i \in 1..Len(ty_out.results) :
             ElemDataType(i) = 6 =>
                IF ElemMainId(i) \in {40110, 51001, 51002, 51100, 51101, 51102}
                THEN ty_out.results[i].value = [kind |-> "int", v |-> 86400]
                ELSE ty_out.results[i].value =
                        [kind |-> "datetime", of |-> [kind |-> "int", v |-> 86400]]

\* a body with the same raw 86400 under grid frequency (sub-id 4000) and under
\* wind speed: the first stays a number, the second becomes an instant
C12_Witness ==
    /\ TyDone("multi")
    /\ ty_out.raised = "none"
    /\ Len(ty_out.results) = 2
    /\ ElemMainId(1) = 40110 /\ ty_out.results[1].subid = 4000
    /\ ty_out.results[1].value = [kind |-> "int", v |-> 86400]
    /\ ty_out.results[2].value.kind = "datetime"

\* C13: decode_data raises and returns no value whenever the data type is outside
\* {0x00..0x07, 0x09, 0x0A} or the conversion type is outside {0x00..0x05}.
C13_UnknownTagsRaise ==
    (TyDone("single")
        /\ (ty_in[1] \notin ((0..7) \cup {9, 10}) \/ ty_in[2] \notin 0..5)) =>
        /\ ty_out.raised # "none"
        /\ "value" \notin DOMAIN ty_out

\* a well-formed u16 block under a conversion type the decoder does not know
C13_Witness ==
    /\ TyDone("single")
    /\ ty_in[1] = 3
    /\ ty_in[2] = 6
    /\ Len(ty_in) = 7
    /\ ty_out.raised = "UnboundLocalError"

\* C14: strings (data type 0x09) and absent values (data type 0x00) bypass
\* conversion: for every conversion type 0..5 and every conversion value
\* decode_data returns the string unchanged, or the absent value, and raises
\* nothing.
C14_StringsAndAbsentBypassConversion ==
    (TyDone("single") /\ ty_in[2] \in 0..5) =>
        /\ ty_in[1] = 0 => ty_out = [raised |-> "none", data_type |-> 0, value |-> NoneValue]
        /\ (ty_in[1] = 9 /\ \A i \in 6..Len(ty_in) : ty_in[i] < 128) =>
              ty_out = [raised |-> "none", data_type |-> 9,
                        value |-> [kind |-> "str", s |-> rstripNul(SubSeq(ty_in, 6, Len(ty_in)))]]

-----------------------------------------------------------------------------
(* Event stack and alarm history: src/mnet.py, Mnet.get_event ..            *)
(* Mnet.get_alarm_history_batch                                             *)

DATA_ID_EVENT_STACK_STATUS_CODE == <<0, 11>>
EVENT_STACK_SUBID_CODE == 0
EVENT_STACK_SUBID_TIMESTAMP == 1
EVENT_STACK_SUBID_TEXT == 2
EVENT_STACK_INDEX_MULTIPLIER == 100
EVENT_STACK_MAX_EVENTS == 100

\* the keys of Mnet.ALARM_SUB_IDS
ALARM_SUB_IDS ==
    { 5, 7, 9, 11, 13, 18, 23, 29, 38, 39, 40, 42, 45, 51, 53, 55, 99, 100, 102, 103,
      110, 111, 120, 121, 138, 139, 227, 240, 250, 300, 302, 311, 312, 314, 415, 416,
      421, 434, 501, 521, 530, 537, 601, 607, 609, 651, 662, 722 }

\* sorted(keys): the i-th is the key with i - 1 keys below it
sortedMutDescending(keys) ==
    [i \in 1..Cardinality(keys) |-> CHOOSE k \in keys : Cardinality({j \in keys : j > k}) = i - 1]

sorted(keys) ==
    [i \in 1..Cardinality(keys) |-> CHOOSE k \in keys : Cardinality({j \in keys : j < k}) = i - 1]

\* get_events: max_events = min(limit or EVENT_STACK_MAX_EVENTS, EVENT_STACK_MAX_EVENTS)
max_events(limit) ==
    Min(IF limit = 0 THEN EVENT_STACK_MAX_EVENTS ELSE limit, EVENT_STACK_MAX_EVENTS)

\* get_events_batch: max_batch = min(limit, 33)
max_batch(limit) == Min(limit, 33)

\* get_event without the upper limit of the index
valid_event_indexMutNoUpperLimit(index) == 0 <= index

\* get_event: 0 <= index < EVENT_STACK_MAX_EVENTS, or ValueError
valid_event_index(index) == 0 <= index /\ index < EVENT_STACK_MAX_EVENTS

\* get_event with the field offset multiplied instead of the index
event_sub_idMutOffsetTimes100(index, offset) == offset * EVENT_STACK_INDEX_MULTIPLIER + index

\* get_event: sub_id of field offset of event index
event_sub_id(index, offset) == index * EVENT_STACK_INDEX_MULTIPLIER + offset

\* get_events_batch: the request list, code, timestamp and text of each event
events_batch_requests(limit) ==
    [j \in 1..(3 * max_batch(limit)) |->
        <<DATA_ID_EVENT_STACK_STATUS_CODE, event_sub_id((j - 1) \div 3, (j - 1) % 3)>>]

\* get_alarm_history_batch: the request list, timestamp and description of each
\* alarm of sorted(ALARM_SUB_IDS.keys())
alarm_batch_requests ==
    LET sub_ids == sorted(ALARM_SUB_IDS)
    IN  [j \in 1..(2 * Len(sub_ids)) |->
            <<IF j % 2 = 1 THEN DATA_ID_ALARM_LAST_OCCURRED ELSE DATA_ID_STATUS_TEXT,
              sub_ids[(j + 1) \div 2]>>]

\* Event(index, code=int(code), timestamp, text): the codes and texts of the model
\* are integers and strings without white space, which int() and strip() keep
EventRecord(index, code, timestamp, text) ==
    [kind |-> "Event", index |-> index, code |-> code, timestamp |-> timestamp,
     text |-> text]

\* get_events_batch: the loop over the results, three per event; a slot whose code
\* is None is skipped (continue) and the loop goes on
RECURSIVE events_batch_parse(_, _, _, _)
events_batch_parse(results, i, batch, events) ==
    IF i >= batch \/ 3 * i + 2 >= Len(results) THEN events
    ELSE IF results[3 * i + 1] = NoneValue
         THEN events_batch_parse(results, i + 1, batch, events)
         ELSE events_batch_parse(results, i + 1, batch,
                 Append(events, EventRecord(i, results[3 * i + 1], results[3 * i + 2],
                                            results[3 * i + 3])))

\* get_alarm_history_batch: the loop over the results, two per alarm
RECURSIVE alarm_batch_parse(_, _, _, _, _)
alarm_batch_parse(results, sub_ids, i, only_occurred, alarms) ==
    IF i >= Len(sub_ids) \/ 2 * i + 1 >= Len(results) THEN alarms
    ELSE LET timestamp == results[2 * i + 1]
             record == AlarmRecord(sub_ids[i + 1], timestamp, results[2 * i + 2])
         IN  IF timestamp = NoneValue \/ (only_occurred /\ ~record.has_occurred)
             THEN alarm_batch_parse(results, sub_ids, i + 1, only_occurred, alarms)
             ELSE alarm_batch_parse(results, sub_ids, i + 1, only_occurred,
                                    Append(alarms, record))

-----------------------------------------------------------------------------
(* SpecHistory: the event-stack and alarm-history accessors of a logged-in  *)
(* session against a controller whose event stack has MaxEvents slots.      *)
(* Every round trip is a request frame built by create_packet and a reply   *)
(* frame read by read_packet, decoded with the session key.  Transport      *)
(* failures are the subject of SpecSession and do not occur here.           *)

\* the serial number of the controller and the key the session derived from it;
\* under this key no reply of the controller below holds a 0xFF byte, which
\* read_packet would hand over doubled
HistorySerial == <<1, 2, 4, 8>>
HistoryKey == encode_serial(HistorySerial)

\* the controller's typed blocks: an absent value (data type 0), the code,
\* timestamp and text of the event in slot index
AbsentBlock == TypedBlock(0, 0, 0, <<>>)
EventBlock(index, offset) ==
    CASE offset = EVENT_STACK_SUBID_CODE -> TypedBlock(4, 0, 0, <<0, 10 + index>>)
      [] offset = EVENT_STACK_SUBID_TIMESTAMP -> TypedBlock(6, 0, 0, to_bytes4(86400 + index))
      [] OTHER -> TypedBlock(9, 0, 0, <<69, 48 + index>>)

\* what the controller holds at sub_id of the event stack: stack[i + 1] tells
\* whether slot i holds an event
ControllerEventBlock(stack, sub_id) ==
    LET index == sub_id \div EVENT_STACK_INDEX_MULTIPLIER
        offset == sub_id % EVENT_STACK_INDEX_MULTIPLIER
    IN  IF index + 1 <= Len(stack) /\ stack[index + 1] THEN EventBlock(index, offset)
        ELSE AbsentBlock

\* the alarm memories of the controller: every alarm at the never-occurred
\* sentinel, every alarm occurred, a mix with unknown sub-ids, or every alarm
\* occurred in the first minutes of 2032
AlarmProfiles == {"never", "occurred", "mixed", "in2032"}
AlarmState(profile, sub_id) ==
    IF profile # "mixed" THEN profile
    ELSE CASE sub_id % 3 = 0 -> "absent"
           [] sub_id % 3 = 1 -> "never"
           [] OTHER -> "occurred"

\* 2032-05-09 06:24:00 UTC in seconds since 1980-01-01, as the controller sends it
SentinelBytes == <<98, 122, 5, 0>>

ControllerAlarmBlock(profile, data_id, sub_id) ==
    IF AlarmState(profile, sub_id) = "absent" THEN AbsentBlock
    ELSE IF data_id = DATA_ID_STATUS_TEXT THEN TypedBlock(9, 0, 0, <<65, 48 + (sub_id % 10)>>)
    ELSE IF AlarmState(profile, sub_id) = "never" THEN TypedBlock(6, 0, 0, SentinelBytes)
    ELSE IF AlarmState(profile, sub_id) = "in2032"
    THEN TypedBlock(6, 0, 0, to_bytes4(Year2032First + sub_id))
    ELSE TypedBlock(6, 0, 0, to_bytes4(86400 + sub_id))

ControllerBlock(stack, profile, pair) ==
    IF pair[1] = DATA_ID_EVENT_STACK_STATUS_CODE THEN ControllerEventBlock(stack, pair[2])
    ELSE ControllerAlarmBlock(profile, pair[1], pair[2])

\* the controller answers a multiple-data request with one element per pair it
\* was asked, as many as it has room for
MaxReplyElems == 3 * MaxEvents
ControllerMultiReply(stack, profile, datasubids) ==
    LET n == Min(Len(datasubids), MaxReplyElems)
    IN  MultiBody(n, [j \in 1..n |->
                         Element(from_bytes2(datasubids[j][1]), datasubids[j][2],
                                 ControllerBlock(stack, profile, datasubids[j]))], <<>>)

\* one record of hi_reqs: a frame written to the serial device
Sent(packet_type, datasubids, frame) ==
    [packet_type |-> packet_type, datasubids |-> datasubids, frame |-> frame]

\* the frame the controller delivers in answer to a request for datasubids
ControllerReply(stack, profile, packet_type, datasubids) ==
    ReplyFrame(packet_type,
               encode(IF packet_type = REQ_DATA
                      THEN ControllerBlock(stack, profile, datasubids[1])
                      ELSE ControllerMultiReply(stack, profile, datasubids), HistoryKey))

\* Mnet.request_data on the logged-in session, rx being what the serial device
\* delivers: the frame it writes, and the value it returns or the exception it
\* raises
request_data(data_id, sub_id, rx) ==
    LET data == request_data_body(data_id, sub_id)
    IN  IF ~MnetPacketFits(data) THEN [raised |-> "OverflowError", sent |-> <<>>]
        ELSE
        LET frame == PacketBytes(create_packet(CLIENT_ID, DESTINATION, REQ_DATA, data))
            sent == <<Sent(REQ_DATA, <<<<data_id, sub_id>>>>, frame)>>
            r == read_packet(rx)
        IN  IF r.raised # "none" THEN [raised |-> r.raised, sent |-> sent]
            ELSE LET d == decode_data(decode(r.packet.data, HistoryKey), from_bytes2(data_id))
                 IN  IF d.raised # "none" THEN [raised |-> d.raised, sent |-> sent]
                     ELSE [raised |-> "none", sent |-> sent, value |-> d.value]

\* Mnet.request_multiple_data on the logged-in session
request_multiple_data(datasubids, rx) ==
    LET data == request_multiple_data_body(datasubids)
    IN  IF Len(datasubids) > 255 THEN [raised |-> "ValueError", sent |-> <<>>]
        ELSE IF ~MnetPacketFits(data) THEN [raised |-> "OverflowError", sent |-> <<>>]
        ELSE
        LET frame == PacketBytes(create_packet(CLIENT_ID, DESTINATION, REQ_MULTIPLE_DATA, data))
            sent == <<Sent(REQ_MULTIPLE_DATA, datasubids, frame)>>
            r == read_packet(rx)
        IN  IF r.raised # "none" THEN [raised |-> r.raised, sent |-> sent]
            ELSE LET m == decode_multiple_data(decode(r.packet.data, HistoryKey))
                 IN  IF m.raised # "none" THEN [raised |-> m.raised, sent |-> sent]
                     ELSE [raised |-> "none", sent |-> sent,
                           values |-> [i \in 1..Len(m.results) |-> m.results[i].value]]

\* the calls of the accessors: limit is given to get_events and
\* get_events_batch, only_occurred to the alarm accessors
MaxBatchLimit == 34

\* the indexes get_event is called with: below the stack, the first slots, the
\* last slot and the one after it
EventIndexes == {-1, 0, 1, MaxEvents - 1, EVENT_STACK_MAX_EVENTS - 1, EVENT_STACK_MAX_EVENTS}

HistoryOps ==
    {[name |-> "get_events", limit |-> n] : n \in 0..(MaxEvents + 1)}
    \cup {[name |-> "get_event", index |-> i] : i \in EventIndexes}
    \cup {[name |-> "get_events_batch", limit |-> n] : n \in 1..MaxBatchLimit}
    \cup {[name |-> nm, only_occurred |-> b] :
             nm \in {"get_alarm_history", "get_alarm_history_batch"}, b \in BOOLEAN}

\* the controllers of the model: every pattern of filled and empty slots with the
\* alarms never occurred, and every alarm profile with the stack filled
HistoryControllers ==
    {[stack |-> st, alarms |-> "never"] : st \in [1..MaxEvents -> BOOLEAN]}
    \cup {[stack |-> [i \in 1..MaxEvents |-> TRUE], alarms |-> a] : a \in AlarmProfiles}

\* hi_prev before any accessor was called
NoRead == [result |-> [raised |-> "never"], fetched |-> FALSE]

HistoryInit ==
    /\ \E c \in HistoryControllers : hi_stack = c.stack /\ hi_alarms = c.alarms
    /\ hi_op = NoOp
    /\ hi_idx = 0
    /\ hi_step = 0
    /\ hi_vals = <<>>
    /\ hi_reqs = <<>>
    /\ hi_out = <<>>
    /\ hi_result = [raised |-> "none"]
    /\ hi_pc = "idle"
    /\ hi_serial \in {NoSerial, from_bytes4(HistorySerial)}
    /\ hi_fetched = FALSE
    /\ hi_prev = NoRead
    /\ ObfIdle /\ FrIdle /\ SeIdle /\ MoIdle /\ TyIdle /\ KsIdle /\ CrIdle /\ NsIdle

\* the list the accessor collects its events or records in, taken over from the
\* call before
new_listMutShared == hi_out

\* events = [] in get_events_batch, alarms = [] in get_alarm_history_batch, a new
\* generator in get_events and get_alarm_history
new_list == <<>>

\* the caller starts one of the accessors.  The alarm accessors do not read the
\* event stack and the event accessors do not read the alarm memory: the former
\* are called where the stack is full, the latter where no alarm has occurred.
HiCall ==
    /\ hi_pc = "idle"
    /\ \E op \in HistoryOps :
          /\ hi_op' = op
          /\ IF op.name \in {"get_event", "get_events", "get_events_batch"}
             THEN hi_alarms = "never"
             ELSE \A i \in 1..MaxEvents : hi_stack[i]
    /\ hi_idx' = 0
    /\ hi_step' = 0
    /\ hi_vals' = <<>>
    /\ hi_reqs' = <<>>
    /\ hi_out' = new_list
    /\ hi_result' = [raised |-> "none"]
    /\ hi_pc' = "run"
    /\ hi_fetched' = FALSE
    /\ UNCHANGED <<hi_stack, hi_alarms, hi_serial, hi_prev>>
    /\ UNCHANGED hiOthers

\* the caller reads the events again, once, with the same limit, after the read
\* before has returned or raised
HiCallAgain ==
    /\ hi_pc = "done"
    /\ hi_op.name \in {"get_events", "get_events_batch"}
    /\ hi_prev = NoRead
    /\ hi_prev' = [result |-> hi_result, fetched |-> hi_fetched]
    /\ hi_idx' = 0
    /\ hi_step' = 0
    /\ hi_vals' = <<>>
    /\ hi_reqs' = <<>>
    /\ hi_out' = new_list
    /\ hi_result' = [raised |-> "none"]
    /\ hi_pc' = "run"
    /\ hi_fetched' = FALSE
    /\ UNCHANGED <<hi_stack, hi_alarms, hi_op, hi_serial>>
    /\ UNCHANGED hiOthers

\* _ensure_serial_available at the first request of an accessor called with
\* serial None: get_serial_number writes its frame, the controller answers with
\* its serial number, and the session is keyed with it (HistoryKey).  get_event
\* with an index out of range raises before its first request.
HiFetchSerial ==
    /\ hi_pc = "run"
    /\ hi_serial = NoSerial
    /\ hi_op.name = "get_event" => valid_event_index(hi_op.index)
    /\ hi_serial' = from_bytes4(HistorySerial)
    /\ hi_fetched' = TRUE
    /\ UNCHANGED <<hi_stack, hi_alarms, hi_op, hi_idx, hi_step, hi_vals, hi_reqs, hi_out,
                   hi_result, hi_pc, hi_prev>>
    /\ UNCHANGED hiOthers

\* the accessor returns (a generator is exhausted): out is what the caller got
HiReturned(out) == [raised |-> "none", value |-> out]

\* get_events: the next request_data of get_event(hi_idx); the generator goes on
\* to the next index when get_event returned None, and yields the event otherwise
HiEventRequest ==
    /\ hi_pc = "run"
    /\ hi_serial # NoSerial
    /\ hi_op.name = "get_events"
    /\ \E r \in {request_data(DATA_ID_EVENT_STACK_STATUS_CODE, event_sub_id(hi_idx, hi_step), rx) :
                  rx \in {ControllerReply(hi_stack, hi_alarms, REQ_DATA,
                             <<<<DATA_ID_EVENT_STACK_STATUS_CODE,
                                 event_sub_id(hi_idx, hi_step)>>>>)}} :
       LET last == hi_idx + 1 >= max_events(hi_op.limit)
       IN  /\ hi_reqs' = hi_reqs \o r.sent
           /\ IF r.raised # "none"
              THEN /\ hi_result' = [raised |-> r.raised]
                   /\ hi_pc' = "done"
                   /\ UNCHANGED <<hi_idx, hi_step, hi_vals, hi_out>>
              ELSE IF hi_step = EVENT_STACK_SUBID_CODE /\ r.value # NoneValue
              THEN /\ hi_step' = EVENT_STACK_SUBID_TIMESTAMP
                   /\ hi_vals' = <<r.value>>
                   /\ UNCHANGED <<hi_idx, hi_out, hi_result, hi_pc>>
              ELSE IF hi_step = EVENT_STACK_SUBID_TIMESTAMP
              THEN /\ hi_step' = EVENT_STACK_SUBID_TEXT
                   /\ hi_vals' = Append(hi_vals, r.value)
                   /\ UNCHANGED <<hi_idx, hi_out, hi_result, hi_pc>>
              ELSE LET out == IF hi_step = EVENT_STACK_SUBID_CODE THEN hi_out
                              ELSE Append(hi_out, EventRecord(hi_idx, hi_vals[1], hi_vals[2],
                                                              r.value))
                   IN  /\ hi_out' = out
                       /\ hi_idx' = hi_idx + 1
                       /\ hi_step' = EVENT_STACK_SUBID_CODE
                       /\ hi_vals' = <<>>
                       /\ hi_pc' = IF last THEN "done" ELSE "run"
                       /\ hi_result' = IF last THEN HiReturned(out) ELSE hi_result
    /\ UNCHANGED <<hi_stack, hi_alarms, hi_op>>
    /\ UNCHANGED hiSession
    /\ UNCHANGED hiOthers

\* get_event(destination, index) called by itself: the range check, then the
\* next request_data; None when the code is None, the Event after the text
HiGetEvent ==
    /\ hi_pc = "run"
    /\ hi_op.name = "get_event"
    /\ IF ~valid_event_index(hi_op.index)
       THEN /\ hi_result' = [raised |-> "ValueError"]
            /\ hi_pc' = "done"
            /\ UNCHANGED <<hi_step, hi_vals, hi_reqs>>
       ELSE
       /\ hi_serial # NoSerial
       /\ \E r \in {request_data(DATA_ID_EVENT_STACK_STATUS_CODE,
                                 event_sub_id(hi_op.index, hi_step), rx) :
                     rx \in {ControllerReply(hi_stack, hi_alarms, REQ_DATA,
                                <<<<DATA_ID_EVENT_STACK_STATUS_CODE,
                                    event_sub_id(hi_op.index, hi_step)>>>>)}} :
           /\ hi_reqs' = hi_reqs \o r.sent
           /\ IF r.raised # "none"
              THEN /\ hi_result' = [raised |-> r.raised]
                   /\ hi_pc' = "done"
                   /\ UNCHANGED <<hi_step, hi_vals>>
              ELSE IF hi_step = EVENT_STACK_SUBID_CODE /\ r.value = NoneValue
              THEN /\ hi_result' = HiReturned(NoneValue)
                   /\ hi_pc' = "done"
                   /\ UNCHANGED <<hi_step, hi_vals>>
              ELSE IF hi_step < EVENT_STACK_SUBID_TEXT
              THEN /\ hi_step' = hi_step + 1
                   /\ hi_vals' = Append(hi_vals, r.value)
                   /\ UNCHANGED <<hi_result, hi_pc>>
              ELSE /\ hi_result' = HiReturned(EventRecord(hi_op.index, hi_vals[1], hi_vals[2],
                                                          r.value))
                   /\ hi_pc' = "done"
                   /\ UNCHANGED <<hi_step, hi_vals>>
    /\ UNCHANGED <<hi_stack, hi_alarms, hi_op, hi_idx, hi_out>>
    /\ UNCHANGED hiSession
    /\ UNCHANGED hiOthers

\* get_events_batch: one request_multiple_data for limit events, then the loop
\* over its results
HiBatchEvents ==
    /\ hi_pc = "run"
    /\ hi_serial # NoSerial
    /\ hi_op.name = "get_events_batch"
    /\ \E r \in {request_multiple_data(requests, rx) :
                  requests \in {events_batch_requests(hi_op.limit)},
                  rx \in {ControllerReply(hi_stack, hi_alarms, REQ_MULTIPLE_DATA,
                                          events_batch_requests(hi_op.limit))}} :
           /\ hi_reqs' = hi_reqs \o r.sent
           /\ IF r.raised # "none"
              THEN /\ hi_result' = [raised |-> r.raised]
                   /\ UNCHANGED hi_out
              ELSE LET events == events_batch_parse(r.values, 0, max_batch(hi_op.limit), <<>>)
                   IN  /\ hi_out' = events
                       /\ hi_result' = HiReturned(events)
    /\ hi_pc' = "done"
    /\ UNCHANGED <<hi_stack, hi_alarms, hi_op, hi_idx, hi_step, hi_vals>>
    /\ UNCHANGED hiSession
    /\ UNCHANGED hiOthers

\* get_alarm_history: the next request_data of get_alarm_record for the hi_idx-th
\* sub-id of the sorted table; get_alarm_record returns None when a value is
\* None and when anything raised, and the generator then goes on
HiAlarmRequest ==
    /\ hi_pc = "run"
    /\ hi_serial # NoSerial
    /\ hi_op.name = "get_alarm_history"
    /\ \E sub_id \in {sorted(ALARM_SUB_IDS)[hi_idx + 1]} :
       \E r \in {request_data(alarm_record_data_id(hi_step), sub_id, rx) :
                  rx \in {ControllerReply(hi_stack, hi_alarms, REQ_DATA,
                             <<<<alarm_record_data_id(hi_step), sub_id>>>>)}} :
       LET last == hi_idx + 1 >= Cardinality(ALARM_SUB_IDS)
       IN  /\ hi_reqs' = hi_reqs \o r.sent
           /\ IF r.raised = "none" /\ r.value # NoneValue /\ hi_step = 0
              THEN /\ hi_step' = 1
                   /\ hi_vals' = <<r.value>>
                   /\ UNCHANGED <<hi_idx, hi_out, hi_result, hi_pc>>
              ELSE LET record == AlarmRecord(sub_id, hi_vals[1], r.value)
                       out == IF r.raised # "none" \/ r.value = NoneValue THEN hi_out
                              ELSE IF hi_op.only_occurred /\ ~record.has_occurred THEN hi_out
                              ELSE Append(hi_out, record)
                   IN  /\ hi_out' = out
                       /\ hi_idx' = hi_idx + 1
                       /\ hi_step' = 0
                       /\ hi_vals' = <<>>
                       /\ hi_pc' = IF last THEN "done" ELSE "run"
                       /\ hi_result' = IF last THEN HiReturned(out) ELSE hi_result
    /\ UNCHANGED <<hi_stack, hi_alarms, hi_op>>
    /\ UNCHANGED hiSession
    /\ UNCHANGED hiOthers

\* get_alarm_history_batch: one request_multiple_data for the whole table, then
\* the loop over its results
HiBatchAlarms ==
    /\ hi_pc = "run"
    /\ hi_serial # NoSerial
    /\ hi_op.name = "get_alarm_history_batch"
    /\ \E r \in {request_multiple_data(requests, rx) :
                  requests \in {alarm_batch_requests},
                  rx \in {ControllerReply(hi_stack, hi_alarms, REQ_MULTIPLE_DATA,
                                          alarm_batch_requests)}} :
           /\ hi_reqs' = hi_reqs \o r.sent
           /\ IF r.raised # "none"
              THEN /\ hi_result' = [raised |-> r.raised]
                   /\ UNCHANGED hi_out
              ELSE LET alarms == alarm_batch_parse(r.values, sorted(ALARM_SUB_IDS), 0,
                                                   hi_op.only_occurred, <<>>)
                   IN  /\ hi_out' = alarms
                       /\ hi_result' = HiReturned(alarms)
    /\ hi_pc' = "done"
    /\ UNCHANGED <<hi_stack, hi_alarms, hi_op, hi_idx, hi_step, hi_vals>>
    /\ UNCHANGED hiSession
    /\ UNCHANGED hiOthers

HistoryNext ==
    \/ HiCall
    \/ HiCallAgain
    \/ HiFetchSerial
    \/ HiEventRequest
    \/ HiGetEvent
    \/ HiBatchEvents
    \/ HiAlarmRequest
    \/ HiBatchAlarms

SpecHistory == HistoryInit /\ [][HistoryNext]_vars

-----------------------------------------------------------------------------
(* Claims on the event stack and the alarm history                          *)

\* the accessor nm has returned or raised
HiDone(nm) == hi_pc = "done" /\ hi_op.name = nm

\* the (main-id 0x000B, sub-id index * 100 + {0, 1, 2}) pairs of the first n events
EventPairs(n) == [j \in 1..(3 * n) |-> <<<<0, 11>>, ((j - 1) \div 3) * 100 + ((j - 1) % 3)>>]

\* C15: get_events_batch(dest, limit = N) with N from 1 to 33 writes exactly one
\* REQ_MULTIPLE_DATA frame, which carries the 3 * N pairs of the first N events,
\* and returns the events without raising: the request fits one frame.
C15_BatchRequestFitsOneFrame ==
    (HiDone("get_events_batch") /\ hi_op.limit \in 1..33) =>
        /\ hi_result.raised = "none"
        /\ Len(hi_reqs) = 1
        /\ hi_reqs[1].packet_type = REQ_MULTIPLE_DATA
        /\ hi_reqs[1].datasubids = EventPairs(hi_op.limit)

\* the pairs (0xC73B, s) and (0xC73C, s) of the sub-ids s of table, ascending
AlarmPairs(table) ==
    [j \in 1..(2 * Cardinality(table)) |->
        <<IF j % 2 = 1 THEN <<199, 59>> ELSE <<199, 60>>, sorted(table)[(j + 1) \div 2]>>]

\* C16: get_alarm_history_batch writes exactly one REQ_MULTIPLE_DATA frame, which
\* carries the pairs (0xC73B, s) and (0xC73C, s) of every sub-id s of the alarm
\* table; the request is built and written, not rejected for its size.
C16_AlarmBatchRequestWritten ==
    HiDone("get_alarm_history_batch") =>
        /\ hi_result.raised # "OverflowError"
        /\ Len(hi_reqs) = 1
        /\ hi_reqs[1].packet_type = REQ_MULTIPLE_DATA
        /\ hi_reqs[1].datasubids = AlarmPairs(ALARM_SUB_IDS)

\* the number of slots filled before the first empty one
LeadingEvents(stack) ==
    Cardinality({i \in 1..Len(stack) : \A j \in 1..i : stack[j]})

\* C17: get_events and get_events_batch stop at the first absent slot: the events
\* returned are those of the slots before it (of the slots asked for), in
\* increasing index order, and none with a greater index.
C17_IterationStopsAtFirstAbsentSlot ==
    ((HiDone("get_events") \/ HiDone("get_events_batch")) /\ hi_result.raised = "none") =>
        LET asked == IF hi_op.name = "get_events" THEN max_events(hi_op.limit)
                     ELSE max_batch(hi_op.limit)
            m == Min(asked, LeadingEvents(hi_stack))
        IN  [k \in 1..Len(hi_out) |-> hi_out[k].index] = [k \in 1..m |-> k - 1]

\* the sentinel 2032-05-09 06:24:00 UTC as decode_data returns it
SentinelDatetime ==
    [kind |-> "datetime", of |-> [kind |-> "int", v |-> from_bytes4(SentinelBytes)]]

\* C18: an AlarmRecord whose timestamp is the sentinel 2032-05-09 06:24:00 UTC has
\* has_occurred = FALSE, and none is returned when only_occurred is set.
C18_SentinelNeverOccurred ==
    \A k \in 1..Len(hi_out) :
        (hi_out[k].kind = "AlarmRecord" /\ hi_out[k].last_occurred = SentinelDatetime) =>
            (~hi_out[k].has_occurred /\ ~hi_op.only_occurred)

C18_Witness ==
    /\ HiDone("get_alarm_history")
    /\ hi_alarms = "mixed"
    /\ \E k \in 1..Len(hi_out) :
          hi_out[k].last_occurred = SentinelDatetime /\ ~hi_out[k].has_occurred
    /\ \E k \in 1..Len(hi_out) : hi_out[k].has_occurred

\* the pairs requested one by one so far
PairsRead == [k \in 1..Len(hi_reqs) |-> hi_reqs[k].datasubids[1]]

\* pairs reads table in ascending order of sub-id: (0xC73B, s) for every s and,
\* right after it, (0xC73C, s) unless s is in skipped, and nothing else
ReadsInOrder(pairs, table, skipped) ==
    /\ Len(pairs) = 2 * Cardinality(table) - Cardinality(skipped)
    /\ \A k \in 1..(Len(pairs) - 1) : pairs[k][2] <= pairs[k + 1][2]
    /\ \A s \in table :
          \E k \in 1..Len(pairs) :
             /\ pairs[k] = <<<<199, 59>>, s>>
             /\ s \notin skipped => (k < Len(pairs) /\ pairs[k + 1] = <<<<199, 60>>, s>>)

\* the sub-ids of the table are those from 5 to 722, both in it
TableRange == 5 \in ALARM_SUB_IDS /\ 722 \in ALARM_SUB_IDS /\ \A s \in ALARM_SUB_IDS : 5 <= s /\ s <= 722

-----------------------------------------------------------------------------
(* SpecKey: encode_serial applied to 4-byte serials drawn from a bounded    *)
(* set of byte values.                                                      *)

\* the byte values the serials are built from: the bytes of 01 02 03 04, the
\* extremes, and the two values around the sign bit
KeyBytes == {0, 1, 2, 3, 4, 127, 128, 255}

KeySerials == {<<a, b, c, d>> : a \in KeyBytes, b \in KeyBytes, c \in KeyBytes, d \in KeyBytes}

KeyInit ==
    /\ ks_serial_bytes \in KeySerials
    /\ ks_result = <<>>
    /\ ks_pc = "start"
    /\ ObfIdle /\ FrIdle /\ SeIdle /\ MoIdle /\ TyIdle /\ HiIdle /\ CrIdle /\ NsIdle

\* encode_serial(serial_bytes) is called
KsEncodeSerial ==
    /\ ks_pc = "start"
    /\ ks_result' = encode_serial(ks_serial_bytes)
    /\ ks_pc' = "encoded"
    /\ UNCHANGED <<ks_serial_bytes, ksOthers>>

KeyNext == KsEncodeSerial

SpecKey == KeyInit /\ [][KeyNext]_vars

\* the bits of a byte, least significant first, and the three bitwise operations
\* of encode_serial computed from them
Bits8(n) == [b \in 0..7 |-> (n \div (2 ^ b)) % 2]
And8(x, y) == LET a == Bits8(x) b == Bits8(y)
              IN  a[0] * b[0] + 2 * a[1] * b[1] + 4 * a[2] * b[2] + 8 * a[3] * b[3]
                  + 16 * a[4] * b[4] + 32 * a[5] * b[5] + 64 * a[6] * b[6] + 128 * a[7] * b[7]
Or8(x, y) == x + y - And8(x, y)
Xor8(x, y) == x + y - 2 * And8(x, y)

\* C21: for every 4-byte serial p0 p1 p2 p3, encode_serial returns the 5 bytes
\* k[0] = ((p2 & p1) - p2) mod 256, k[1] = (p1 + p0 + p3) mod 256,
\* k[2] = ((p3 + p0) XOR p1) mod 256, k[3] = ((p3 & p1) + p2) mod 256,
\* k[4] = ((p3 | p2) - p3) mod 256, each in 0..255; the result is a function of
\* the four bytes alone.
C21_KeyDerivation ==
    ks_pc = "encoded" =>
        LET p0 == ks_serial_bytes[1] p1 == ks_serial_bytes[2]
            p2 == ks_serial_bytes[3] p3 == ks_serial_bytes[4]
            sum == p3 + p0
        IN  /\ Len(ks_result) = 5
            /\ \A i \in 1..5 : ks_result[i] \in 0..255
            /\ ks_result[1] = (And8(p2, p1) - p2 + 256) % 256
            /\ ks_result[2] = (p1 + p0 + p3) % 256
            /\ ks_result[3] = (256 * (sum \div 256) + Xor8(sum % 256, p1)) % 256
            /\ ks_result[4] = (And8(p3, p1) + p2) % 256
            /\ ks_result[5] = (Or8(p3, p2) - p3) % 256

\* a serial on which every byte of the key needs its reduction or its operator:
\* k[0] wraps below zero, k[1] and k[3] wrap above 255, p3 + p0 exceeds a byte
C21_Witness ==
    /\ ks_pc = "encoded"
    /\ ks_serial_bytes = <<255, 127, 128, 255>>
    /\ ks_result = <<128, 125, 129, 255, 0>>

\* C22 as stated: for the serial 01 02 03 04 the key is 00 07 07 03 03.
C22_KeyOf01020304Is0007070303 ==
    (ks_pc = "encoded" /\ ks_serial_bytes = <<1, 2, 3, 4>>) => ks_result = <<0, 7, 7, 3, 3>>

\* C22: for the serial 01 02 03 04 the key is FF 07 07 03 03: k[0] is
\* ((0x03 & 0x02) - 0x03) mod 256 = 0xFF, and k[1] .. k[4] are 07 07 03 03.
C22_KeyOf01020304IsFF07070303 ==
    (ks_pc = "encoded" /\ ks_serial_bytes = <<1, 2, 3, 4>>) => ks_result = <<255, 7, 7, 3, 3>>

\* encode_serial has returned for the serial 01 02 03 04
C22_Witness ==
    /\ ks_pc = "encoded"
    /\ ks_serial_bytes = <<1, 2, 3, 4>>
    /\ Len(ks_result) = 5

-----------------------------------------------------------------------------
(* SpecCrc: the CRC calculator applied to byte strings, and the CRC a new    *)
(* MnetPacket computes for itself.                                          *)

\* BASELINE CRC VALUES of src/test_crc_baseline.py: the input and the CRC
baseline_crcs ==
    { <<<<2, 1, 12, 40, 2, 156, 67>>, 22436>>,
      <<<<2, 1, 12, 46, 0>>, 25279>>,
      <<<<2, 1, 12, 50, 2, 0, 1>>, 4520>>,
      <<<<2, 1, 12, 50, 2, 0, 2>>, 8651>>,
      <<<<2, 1, 12, 50, 2, 0, 3>>, 12778>>,
      <<<<>>, 0>>,
      <<<<0>>, 0>>,
      <<<<255>>, 7920>>,
      <<<<1, 2, 3, 4, 5>>, 33288>>,
      <<<<255, 255, 255, 255>>, 39375>>,
      <<<<156, 67, 156, 71, 156, 70>>, 24297>> }

\* packet_tests of src/test_crc_baseline.py: the packet type, the data, the CRC
packet_tests ==
    { <<REQ_DATA, <<156, 67>>, 22436>>,
      <<REQ_SERIAL_NUMBER, <<>>, 25279>>,
      <<REQ_COMMAND, <<0, 1>>, 4520>> }

CrcBytes == {0, 1, 255}

CrcInputs ==
    ByteStrings(CrcBytes, MaxFrameData) \cup {t[1] : t \in baseline_crcs}
    \cup {t[2] : t \in packet_tests} \cup {<<156, 255, 67>>}

CrcInit ==
    /\ cr_data \in CrcInputs
    /\ cr_type \in {REQ_DATA, REQ_SERIAL_NUMBER, REQ_COMMAND}
    /\ cr_crc = NoCrc
    /\ cr_pc = "start"
    /\ ObfIdle /\ FrIdle /\ SeIdle /\ MoIdle /\ TyIdle /\ HiIdle /\ KsIdle /\ NsIdle

\* crc_calculator.checksum(data)
CrChecksum ==
    /\ cr_pc = "start"
    /\ cr_crc' = checksum(cr_data)
    /\ cr_pc' = "summed"
    /\ UNCHANGED <<cr_data, cr_type, crOthers>>

\* Mnet.MnetPacket(b'\x02', b'\x01', ptype, len(data), data).calculated_crc
CrPacket ==
    /\ cr_pc = "start"
    /\ cr_crc' = MnetPacket(DESTINATION, CLIENT_ID, cr_type, Len(cr_data), cr_data, NoCrc).calculated_crc
    /\ cr_pc' = "packet"
    /\ UNCHANGED <<cr_data, cr_type, crOthers>>

CrcNext == CrChecksum \/ CrPacket

SpecCrc == CrcInit /\ [][CrcNext]_vars

\* the 17-bit polynomial x^16 + x^12 + x^5 + 1 (0x11021), and the remainder of
\* the polynomial n (below 2^24) divided by it over GF(2), the high bit first
Poly1021 == 69665

RECURSIVE PolyMod(_, _)
PolyMod(n, bit) ==
    IF bit < 16 THEN n
    ELSE CHOOSE r \in {PolyMod(m, bit - 1) :
                          m \in {IF (n \div (2 ^ bit)) % 2 = 1
                                 THEN BitXor(n, Poly1021 * 2 ^ (bit - 16)) ELSE n}} : TRUE

\* CRC-16/XMODEM of data by long division: the register and the next byte are
\* one 24-bit polynomial, reduced after each byte
RECURSIVE Xmodem(_, _, _)
Xmodem(data, i, reg) ==
    IF i > Len(data) THEN reg
    ELSE CHOOSE r \in {Xmodem(data, i + 1, m) :
                          m \in {PolyMod(BitXor(reg * 256, data[i] * 65536), 23)}} : TRUE

IsWriteData(e) == e.ev = "tx" /\ e.packet_type = <<12, 44>>
WrittenWriteData == SelectSeq(se_log, IsWriteData)

\* whole seconds from 1980-01-01 00:00:00 UTC to the instant t, which is at or
\* after it
SecondsSince1980(t) ==
    (t.day * 86400 + t.second) - (IF t.tzinfo = <<>> THEN 0 ELSE t.tzinfo[1])

\* the datetime that epoch + timedelta(seconds=of) is, for the value
\* timestamp_to_datetime returns
EpochPlus(dt) ==
    Datetime(dt.of.v \div 86400, dt.of.v % 86400, 0, <<0>>)

\* d is the instant t in UTC, truncated to whole seconds
IsTruncatedUtc(d, t) ==
    /\ d.tzinfo = <<0>>
    /\ d.microsecond = 0
    /\ d.second \in 0..86399
    /\ d.day >= 0
    /\ d.day * 86400 + d.second = SecondsSince1980(t)

\* C24: set_controller_time(dest, t) sends one REQ_WRITE_DATA (0x0C2C) frame
\* whose 8-byte body is C3 53, 00 01 and s, the big-endian unsigned 32-bit number
\* of whole seconds from 1980-01-01 00:00:00 UTC to t; timestamp_to_datetime(s)
\* is t truncated to whole seconds.
C24_SetControllerTimeBody ==
    (se_op # NoOp /\ se_op.name = "set_controller_time") =>
        LET t == se_op.time
            secs == SecondsSince1980(t)
            body == <<195, 83, 0, 1, secs \div 16777216, (secs \div 65536) % 256,
                      (secs \div 256) % 256, secs % 256>>
        IN  /\ Len(WrittenWriteData) <= 1
            /\ (Returned /\ se_result.raised = "none") => Len(WrittenWriteData) = 1
            /\ se_pc = "wait" => Len(WrittenWriteData) = 1
            /\ \A i \in 1..Len(Written) :
                  \/ Written[i].data = SerialRequestFrame
                  \/ /\ i = Len(Written)
                     /\ Written[i].packet_type = <<12, 44>>
                     /\ Written[i].data =
                           <<1, 2, 1, 12, 44, Len(escape_data(body))>> \o escape_data(body)
                           \o to_bytes2(checksum(<<2, 1, 12, 44, Len(escape_data(body))>>
                                                  \o escape_data(body)))
                           \o <<4>>
            /\ IsTruncatedUtc(
                   EpochPlus(timestamp_to_datetime(
                       [kind |-> "int", v |-> from_bytes4(<<body[5], body[6], body[7], body[8]>>)])),
                   t)

\* the clock was set from a datetime with a fraction of a second and an offset
\* from UTC, and the controller's answer came back
C24_Witness ==
    /\ Returned
    /\ se_op.name = "set_controller_time"
    /\ se_op.time.microsecond > 0
    /\ se_op.time.tzinfo = <<-18000>>
    /\ se_result.raised = "none"
    /\ Len(WrittenWriteData) = 1

\* se_log[i] is the reply to the serial-number request and its payload is not
\* 4 bytes long
IsShortSerialReply(i) ==
    /\ i > 1
    /\ IsRx(se_log[i])
    /\ IsTx(se_log[i - 1])
    /\ se_log[i - 1].packet_type = <<12, 46>>
    /\ Len(se_log[i].data) # 4

\* C25: when the reply to REQ_SERIAL_NUMBER carries a payload that is not exactly
\* 4 bytes, the operation that triggered the request fails with an error, sends
\* no further frame, and leaves the session unkeyed: serial and encoded_serial
\* are still unset, so the next operation issues the serial-number request again.
C25_ShortSerialReplyFailsTheOperation ==
    \A i \in 1..Len(se_log) :
        IsShortSerialReply(i) =>
            /\ i = Len(se_log)
            /\ se_pc = "idle"
            /\ se_result.raised \notin {"none", "pending"}
            /\ se_serial = NoSerial
            /\ se_encoded_serial = NoKey
            /\ EnsureNeeded(se_serial)

C29_GetEventsYieldsAtMostLimit ==
    (hi_op # NoOp /\ hi_op.name = "get_events") =>
        /\ Len(hi_out) <= hi_op.limit
        /\ Len(hi_out) <= 100
        /\ \A k \in 1..(Len(hi_out) - 1) : hi_out[k].index < hi_out[k + 1].index

\* the plain body of the request operation in progress
PlainBody ==
    CASE se_op.name = "request_data" ->
            <<se_op.data_id[1], se_op.data_id[2], se_op.sub_id \div 256, se_op.sub_id % 256>>
      [] se_op.name = "send_command" -> <<se_op.command_id[1], se_op.command_id[2]>>
      [] se_op.name = "request_multiple_data" ->
            <<Len(se_op.datasubids)>> \o
            [j \in 1..(4 * Len(se_op.datasubids)) |->
                LET pair == se_op.datasubids[((j - 1) \div 4) + 1]
                IN  CASE j % 4 = 1 -> pair[1][1]
                      [] j % 4 = 2 -> pair[1][2]
                      [] j % 4 = 3 -> pair[2] \div 256
                      [] OTHER -> pair[2] % 256]

PlainType ==
    CASE se_op.name = "request_data" -> <<12, 40>>
      [] se_op.name = "request_multiple_data" -> <<12, 42>>
      [] se_op.name = "send_command" -> <<12, 50>>

\* the frame SOH dest client type len body crc EOT of the operation in progress
PlainFrame ==
    CHOOSE f \in {<<1>> \o inner \o to_bytes2(checksum(inner)) \o <<4>> :
                    inner \in {<<2, 1>> \o PlainType \o <<Len(escape_data(PlainBody)) % 256>>
                               \o escape_data(PlainBody)}} : TRUE

\* the transport worked and the serial-number reply had its 4 bytes
TransportWorked ==
    \A i \in 1..Len(se_log) : ~IsError(se_log[i]) /\ ~IsShortSerialReply(i)

\* C27: each request operation writes one frame with destination dest, source the
\* client id, and its type and plain body: request_data 0x0C28 and id, sub (2
\* bytes, big-endian); request_multiple_data 0x0C2A and len(L), then id and sub of
\* each pair of L in order; send_command 0x0C32 and the 2-byte command id.
C27_RequestWritesOneFrame ==
    (se_op # NoOp /\ se_op.name \in {"request_data", "request_multiple_data", "send_command"}) =>
        /\ \A i \in 1..Len(Written) :
              Written[i].data = SerialRequestFrame \/ Written[i].data = PlainFrame
        /\ (Returned /\ TransportWorked) =>
              Cardinality({i \in 1..Len(Written) : Written[i].data = PlainFrame}) = 1

\* the descriptors login handed to encode so far
IsEncode(e) == e.ev = "encode"
Descriptors == SelectSeq(se_log, IsEncode)

\* "131 fkYu))12221QQaa" and its NUL
VendorTag == <<49, 51, 49, 32, 102, 107, 89, 117, 41, 41, 49, 50, 50, 50, 49, 81, 81, 97, 97, 0>>

\* C28 as stated: the login descriptor is exactly 32 bytes: the 20-byte vendor
\* tag, two 0xFF pad bytes, the login packet id 00 00 00 7B, the constant 0x05, and
\* six 0x00 bytes.
C28_DescriptorEndsWithSixZeros ==
    \A i \in 1..Len(Descriptors) :
        /\ Len(Descriptors[i].data) = 32
        /\ Descriptors[i].data = VendorTag \o <<255, 255>> \o <<0, 0, 0, 123>> \o <<5>>
                                 \o <<0, 0, 0, 0, 0, 0>>

\* C28: the login descriptor is exactly 32 bytes: the 20-byte vendor tag, two
\* 0xFF pad bytes, the login packet id 00 00 00 7B, the constant 0x05, and five
\* 0x00 bytes.
C28_DescriptorEndsWithFiveZeros ==
    \A i \in 1..Len(Descriptors) :
        /\ Len(Descriptors[i].data) = 32
        /\ Descriptors[i].data = VendorTag \o <<255, 255>> \o <<0, 0, 0, 123>> \o <<5>>
                                 \o <<0, 0, 0, 0, 0>>

\* login has built its descriptor, sent it and got the controller's answer
C28_Witness ==
    /\ Returned
    /\ se_op.name = "login"
    /\ se_result.raised = "none"
    /\ Len(Descriptors) = 1
    /\ Len(Descriptors[1].data) = 32

\* the key of the serial number n, from its big-endian bytes p0 p1 p2 p3
KeyOfSerial(n) ==
    LET p0 == n \div 16777216
        p1 == (n \div 65536) % 256
        p2 == (n \div 256) % 256
        p3 == n % 256
    IN  << (And8(p2, p1) - p2 + 256) % 256, (p1 + p0 + p3) % 256,
           Xor8((p3 + p0) % 256, p1), (And8(p3, p1) + p2) % 256, (Or8(p3, p2) - p3) % 256 >>

\* serial and encoded_serial are both unset or both set, and the key is that of
\* the serial
KeyedConsistently ==
    /\ (se_serial = NoSerial) <=> (se_encoded_serial = NoKey)
    /\ se_serial # NoSerial => se_encoded_serial = KeyOfSerial(se_serial)

\* C30: in every state reachable through Mnet operations, whether they succeed or
\* fail, serial is unset if and only if encoded_serial is unset; when set,
\* encoded_serial is encode_serial of the big-endian bytes of serial; and once set,
\* neither is changed by a later Mnet operation: only the owner's reset, which is
\* not one, unsets them.
C30_KeyedUntilReset ==
    /\ []KeyedConsistently
    /\ [][SessReset \/ (se_serial # NoSerial =>
                          (se_serial' = se_serial /\ se_encoded_serial' = se_encoded_serial))]_vars

\* an operation called on a keyed session has failed, and the session is keyed
\* as before
C30_Witness ==
    /\ Returned
    /\ ~se_fresh
    /\ se_result.raised \notin {"none", "pending"}
    /\ se_serial = from_bytes4(se_ctl)
    /\ se_encoded_serial # NoKey

-----------------------------------------------------------------------------
(* Claims about read_packet's use of the transport, under SpecFrame          *)

\* bytes of a following frame that the transport may already hold
Trailing == {<<>>, <<SOH>>, <<SOH, 2, 1>>}

\* the reads read_packet issues for a frame whose length byte is len
FrameReads(len) == IF len = 0 THEN <<6, 3>> ELSE <<6, len, 3>>

\* C31: read_packet takes exactly 9 + len bytes from the transport for a frame,
\* as reads of 6 bytes, len bytes and 3 bytes in that order, len being the
\* length byte of the header; for len = 0 it issues no payload read and the
\* packet it returns has an empty payload.
C31_ReadPacketConsumesNinePlusLen ==
    (fr_pc = "read" /\ fr_got.raised = "none") =>
        /\ fr_got.reads = FrameReads(fr_wire[6])
        /\ Len(fr_wire) - Len(fr_got.rest) = 9 + fr_wire[6]
        /\ fr_wire[6] = 0 => fr_got.packet.data = <<>>
        /\ fr_wire[6] > 0 => fr_got.packet.data = SubSeq(fr_wire, 7, 6 + fr_wire[6])
        /\ \A t \in Trailing :
              \E r \in {read_packet(fr_wire \o t)} :
                 /\ r.raised = "none"
                 /\ r.reads = fr_got.reads
                 /\ r.rest = t
                 /\ r.packet = fr_got.packet

\* a frame of length 0 has been read
C31_Witness ==
    /\ fr_pc = "read"
    /\ fr_got.raised = "none"
    /\ fr_wire[6] = 0
    /\ fr_got.reads = <<6, 3>>
    /\ fr_got.packet.data = <<>>

-----------------------------------------------------------------------------
(* Claims about get_event called by itself, under SpecHistory               *)

\* get_event is running or has ended, called with an index outside 0..99
BadIndexCall == hi_op.name = "get_event" /\ hi_op.index \notin 0..99

\* C32: get_event with an index outside 0..99 raises ValueError before anything
\* is written to the transport and without changing the session: no request for
\* the serial number is sent and the cached serial keeps its value.
C32_BadIndexRaisesBeforeAnyWrite ==
    /\ [](BadIndexCall =>
            /\ hi_reqs = <<>>
            /\ ~hi_fetched
            /\ hi_pc = "done" => hi_result = [raised |-> "ValueError"])
    /\ [][(hi_op'.name = "get_event" /\ hi_op'.index \notin 0..99) =>
             hi_serial' = hi_serial]_vars

\* get_event(dest, 100) has raised on a session that has no serial yet
C32_Witness ==
    /\ HiDone("get_event")
    /\ hi_op.index = 100
    /\ hi_result = [raised |-> "ValueError"]
    /\ hi_serial = NoSerial
    /\ hi_reqs = <<>>

\* the k-th request of get_event(dest, i): main id 0x000B, sub-id 100 i + k - 1
EventRequest(i, k) == <<<<0, 11>>, 100 * i + (k - 1)>>

\* C33: get_event(dest, i) on a keyed session issues REQ_DATA requests for main
\* id 0x000B in the order sub-id 100 i (code), 100 i + 1 (timestamp), 100 i + 2
\* (text), each written after the response to the one before has been read; it
\* returns None after exactly one request when the code is absent, and sends
\* exactly three otherwise.
C33_GetEventRequestsInOrder ==
    (hi_op.name = "get_event" /\ hi_op.index \in 0..99 /\ hi_pc \in {"run", "done"}) =>
        /\ Len(hi_reqs) <= 3
        /\ \A k \in 1..Len(hi_reqs) :
              /\ hi_reqs[k].packet_type = REQ_DATA
              /\ hi_reqs[k].datasubids = <<EventRequest(hi_op.index, k)>>
              /\ hi_reqs[k].frame =
                    PacketBytes(create_packet(CLIENT_ID, DESTINATION, REQ_DATA,
                       request_data_body(<<0, 11>>, 100 * hi_op.index + (k - 1))))
        /\ hi_pc = "run" => Len(hi_vals) = Len(hi_reqs)
        /\ (hi_pc = "done" /\ hi_result.raised = "none") =>
              /\ hi_result.value = NoneValue <=>
                    ~(hi_op.index + 1 <= Len(hi_stack) /\ hi_stack[hi_op.index + 1])
              /\ Len(hi_reqs) = IF hi_result.value = NoneValue THEN 1 ELSE 3

\* get_event(dest, 1) has returned the event of slot 1 after three requests
C33_Witness ==
    /\ HiDone("get_event")
    /\ hi_op.index = 1
    /\ hi_result.raised = "none"
    /\ hi_result.value # NoneValue
    /\ hi_result.value.index = 1
    /\ Len(hi_reqs) = 3
    /\ hi_reqs[3].datasubids = <<<<<<0, 11>>, 102>>>>

-----------------------------------------------------------------------------
(* Claims about the cursor of decode_multiple_data, under SpecTyped         *)

\* where the i-th element of the body starts, counted from 0: after the count
\* byte, and 9 + length bytes after the element before
RECURSIVE CursorAt(_, _)
CursorAt(data_in, i) ==
    IF i = 1 THEN 1
    ELSE CHOOSE pos \in {p + 9 + data_in[p + 9] : p \in {CursorAt(data_in, i - 1)}} : TRUE

\* C34: decode_multiple_data ends on every body and returns at most count
\* elements, count being the first byte; its cursor goes forward by 9 + length
\* for each element decoded, and it does not start on an element whose 9 header
\* bytes are not all inside the input.
C34_CursorAdvancesAndStaysInside ==
    (ty_pc = "done" /\ ty_path \in {"multi", "cut"}) =>
        /\ ty_out.raised # "pending"
        /\ (ty_path = "multi" /\ TyAllGood) => ty_out.raised = "none"
        /\ (ty_out.raised = "none" /\ ty_in = <<>>) => ty_out.results = <<>>
        /\ (ty_out.raised = "none" /\ ty_in # <<>>) =>
              /\ Len(ty_out.results) <= ty_in[1]
              /\ \A i \in 1..Len(ty_out.results) :
                    \E pos \in {CursorAt(ty_in, i)} :
                       /\ pos + 9 <= Len(ty_in)
                       /\ i > 1 => pos > CursorAt(ty_in, i - 1)
                       /\ ty_out.results[i].mainid = from_bytes2(SubSeq(ty_in, pos + 1, pos + 2))
                       /\ ty_out.results[i].subid = from_bytes2(SubSeq(ty_in, pos + 3, pos + 4))
                       /\ ty_out.results[i].data_type = ty_in[pos + 5]
              /\ Len(ty_out.results) < ty_in[1] =>
                    CursorAt(ty_in, Len(ty_out.results) + 1) + 9 > Len(ty_in)

\* a body of two elements cut inside the header of the second: one element is
\* returned although the count byte says two
C34_Witness ==
    /\ ty_pc = "done"
    /\ ty_path = "cut"
    /\ ty_in[1] = 2
    /\ ty_out.raised = "none"
    /\ Len(ty_out.results) = 1
    /\ Len(ty_in) > CursorAt(ty_in, 2)
    /\ Len(ty_in) < CursorAt(ty_in, 2) + 9

-----------------------------------------------------------------------------
(* Claim about the values of request_multiple_data, under SpecSession       *)

\* request_multiple_data has returned its list
MultiReturned ==
    /\ se_pc = "idle"
    /\ se_op.name = "request_multiple_data"
    /\ se_result.raised = "none"

\* the elements of the response the operation decoded, the last entry of se_log
ResponseElements ==
    decode_multiple_data(decode(se_log[Len(se_log)].data, se_log[Len(se_log)].key)).results

\* C35: request_multiple_data returns one value per element decoded from the
\* response, in response order, and the i-th value returned is the value of the
\* i-th requested (main id, sub id) pair, also when the response holds fewer
\* elements than were requested.
C35_ValuesBelongToTheirRequests ==
    MultiReturned =>
        \E elems \in {ResponseElements} :
           /\ Len(se_result.value.values) = Len(elems)
           /\ Len(elems) <= Len(se_op.datasubids)
           /\ \A i \in 1..Len(elems) :
                 /\ se_result.value.values[i] = elems[i].value
                 /\ to_bytes2(elems[i].mainid) = se_op.datasubids[i][1]
                 /\ elems[i].subid = se_op.datasubids[i][2]

-----------------------------------------------------------------------------
(* SpecTransport: one NetworkSerial object (src/mnet.py) used through its   *)
(* methods, through a with statement, and by send_packet.  The peer may     *)
(* refuse a connection or not answer in time, take only part of what is     *)
(* sent, and close the connection.                                          *)

\* connect() calls made on the object, each of which creates a socket
MaxSockets == 3

\* the frames send_packet writes: a serial-number request and a data request
TransportFrames ==
    { PacketBytes(create_packet(CLIENT_ID, DESTINATION, REQ_SERIAL_NUMBER, <<>>)),
      PacketBytes(create_packet(CLIENT_ID, DESTINATION, REQ_DATA,
                                request_data_body(DATA_ID_WIND_SPEED, 0))) }

TransportInit ==
    /\ ns_socket = 0
    /\ ns_socks = <<>>
    /\ ns_last = "none"
    /\ ns_closed = FALSE
    /\ ns_ctx = "none"
    /\ ns_call = [op |-> "none"]
    /\ ns_sp = [pc |-> "idle"]
    /\ ObfIdle /\ FrIdle /\ SeIdle /\ MoIdle /\ TyIdle /\ HiIdle /\ KsIdle /\ CrIdle

\* NetworkSerial.is_connected: self._socket is not None
is_connected == ns_socket # 0

\* the socket _socket refers to is connected to the peer
SocketConnected == ns_socket # 0 /\ ns_socks[ns_socket] = "connected"

\* the socket the object referred to before _socket was assigned again: nothing
\* refers to it any more
Dropped(socks) ==
    [i \in 1..Len(socks) |-> IF i = ns_socket /\ socks[i] # "closed" THEN "dropped" ELSE socks[i]]

\* NetworkSerial.connect: _socket is assigned a new socket, then the socket is
\* connected; ok tells whether socket.connect returned or raised (refused, timed
\* out)
connect(ok) ==
    /\ ns_socks' = Append(Dropped(ns_socks), IF ok THEN "connected" ELSE "open")
    /\ ns_socket' = Len(ns_socks) + 1
    /\ ns_last' = IF ok THEN "ok" ELSE "raised"
    /\ ns_closed' = FALSE

\* NetworkSerial.close: the socket, if any, is closed and _socket is None
close ==
    /\ ns_socks' = IF ns_socket # 0 THEN [ns_socks EXCEPT ![ns_socket] = "closed"] ELSE ns_socks
    /\ ns_socket' = 0
    /\ ns_closed' = TRUE

\* the caller calls connect()
NsConnect ==
    /\ Len(ns_socks) < MaxSockets
    /\ \E ok \in BOOLEAN : connect(ok)
    /\ UNCHANGED <<ns_ctx, ns_call, ns_sp>>
    /\ UNCHANGED nsOthers

\* the caller calls close()
NsClose ==
    /\ ns_last # "none"
    /\ close
    /\ UNCHANGED <<ns_last, ns_ctx, ns_call, ns_sp>>
    /\ UNCHANGED nsOthers

\* `with NetworkSerial(...) as device`: __enter__ calls connect(); when it raises
\* the body is not entered and __exit__ is not called
NsEnter ==
    /\ ns_ctx \in {"none", "left"}
    /\ Len(ns_socks) < MaxSockets
    /\ \E ok \in BOOLEAN :
          /\ connect(ok)
          /\ ns_ctx' = IF ok THEN "body" ELSE "left"
    /\ UNCHANGED <<ns_call, ns_sp>>
    /\ UNCHANGED nsOthers

\* the body of the with statement ends, by its last statement or an exception:
\* __exit__ calls close()
NsExit ==
    /\ ns_ctx = "body"
    /\ close
    /\ ns_ctx' = "left"
    /\ UNCHANGED <<ns_last, ns_call, ns_sp>>
    /\ UNCHANGED nsOthers

\* how socket.recv and socket.send may end on the socket _socket refers to: on a
\* connected one with data, with the peer gone, or with nothing in time; on one
\* whose connect was refused or timed out, with an error of either kind
SocketOutcomes ==
    IF SocketConnected THEN {"none", "ConnectionError", "TimeoutError"}
    ELSE {"ConnectionError", "TimeoutError"}

\* NetworkSerial.read(size), called by read_packet: ConnectionError when _socket
\* is None; otherwise recv until size bytes are there, ConnectionError when recv
\* returns nothing, and the socket's own exception when it raises
NsRead ==
    /\ ns_last # "none"
    /\ \E raised \in (IF ns_socket = 0 THEN {"ConnectionError"} ELSE SocketOutcomes) :
          ns_call' = [op |-> "read", connected |-> SocketConnected, raised |-> raised]
    /\ ns_sp' = IF ns_sp.pc = "written" THEN [ns_sp EXCEPT !.pc = "read"] ELSE ns_sp
    /\ UNCHANGED <<ns_socket, ns_socks, ns_last, ns_closed, ns_ctx>>
    /\ UNCHANGED nsOthers

\* socket.send(data): the number of bytes the socket took, which may be fewer
\* than len(data)
send(data) == 1..Len(data)

\* send_packet: self.device.write(packet_bytes), its result dropped, and
\* read_packet next.  NetworkSerial.write raises ConnectionError when _socket is
\* None and returns self._socket.send(data) otherwise.
NsWrite ==
    /\ ns_last # "none"
    /\ ns_sp.pc \in {"idle", "read"}
    /\ \E data \in TransportFrames :
       \E raised \in (IF ns_socket = 0 THEN {"ConnectionError"} ELSE SocketOutcomes) :
          IF raised # "none"
          THEN /\ ns_call' = [op |-> "write", connected |-> SocketConnected, raised |-> raised]
               /\ ns_sp' = [pc |-> "idle"]
          ELSE \E n \in send(data) :
               /\ ns_call' = [op |-> "write", connected |-> SocketConnected, raised |-> "none",
                              data |-> data, sent |-> n]
               /\ ns_sp' = [pc |-> "written", frame |-> data, sent |-> n]
    /\ UNCHANGED <<ns_socket, ns_socks, ns_last, ns_closed, ns_ctx>>
    /\ UNCHANGED nsOthers

TransportNext == NsConnect \/ NsClose \/ NsEnter \/ NsExit \/ NsRead \/ NsWrite

SpecTransport == TransportInit /\ [][TransportNext]_vars

\* C36: is_connected is true only if the most recent connect() returned and
\* close() has not been called since; a connect() that raises leaves the
\* transport not connected and holding no open socket; the with statement
\* releases the socket however it is left; and while the transport is not
\* connected, read and write raise ConnectionError.
C36_ConnectedOnlyAfterConnect ==
    /\ is_connected => (ns_last = "ok" /\ ~ns_closed)
    /\ (ns_last = "raised" /\ ~ns_closed) => (~is_connected /\ ns_socket = 0)
    /\ ns_ctx = "left" =>
          \A i \in 1..Len(ns_socks) : i = ns_socket => ns_socks[i] = "closed"
    /\ (ns_call.op \in {"read", "write"} /\ ~ns_call.connected) =>
          ns_call.raised = "ConnectionError"

\* C37: NetworkSerial.write(data) transmits every byte of data or raises, so
\* send_packet does not go on to read a response after only a part of its
\* frame was transmitted.
C37_WriteIsWriteAll ==
    /\ (ns_call.op = "write" /\ ns_call.raised = "none") =>
          ns_call.sent = Len(ns_call.data)
    /\ ns_sp.pc = "read" => ns_sp.sent = Len(ns_sp.frame)

-----------------------------------------------------------------------------
(* Claims about the monitor's threads, under SpecMonitor                    *)

\* C38: a command queued by the MQTT or web-socket handler is not lost: in every
\* interleaving of the handlers with the poll loop it is sent to the controller
\* by _execute_pending_command or overwritten by a later command, and it is
\* never cleared without having been sent, also when it is queued while an
\* earlier command is being executed.
C38_QueuedCommandNotLost ==
    /\ mo_pending.cleared = {}
    /\ \A n \in 1..mo_pending.queued :
          \/ n \in mo_pending.sent
          \/ n = mo_pending.cmd
          \/ n < mo_pending.queued

-----------------------------------------------------------------------------
(* Claim about alarms that occurred in 2032, under SpecHistory              *)

\* the alarms of the table that the controller reports with an instant other
\* than the sentinel
RealOccurrences ==
    {s \in ALARM_SUB_IDS : AlarmState(hi_alarms, s) \in {"occurred", "in2032"}}

\* C40: has_occurred is true for every alarm whose last-occurrence timestamp is
\* an instant other than the sentinel 2032-05-09 06:24:00 UTC, every other
\* instant of 2032 included: an alarm that occurred is not reported as never
\* occurred and is not left out when only_occurred is set.
C40_RealOccurrenceIsReported ==
    /\ \A k \in 1..Len(hi_out) :
          (hi_out[k].kind = "AlarmRecord" /\ hi_out[k].last_occurred # SentinelDatetime) =>
              hi_out[k].has_occurred
    /\ HiDone("get_alarm_history") =>
          \A s \in RealOccurrences : \E k \in 1..Len(hi_out) : hi_out[k].sub_id = s

=============================================================================
